---- MODULE Spec2Model ----
(***************************************************************************)
(* lightpatch: byte-level diff (dmp.go), the streaming binary patch codec  *)
(* (MakePatchTimeout / ApplyPatch with io.Reader/io.Writer) and the        *)
(* hex-text patch codec (MakePatch / ApplyPatch with FuncOption).          *)
(*                                                                         *)
(* Byte slices are sequences of byte values; Go's 0-based half-open slice  *)
(* s[i:j] is Slice(s, i, j).  An edit script is a sequence of records      *)
(* [Type, Text] as in dmp.go's diff struct.                                *)
(***************************************************************************)
EXTENDS Integers, Sequences, FiniteSets, TLC

VARIABLES pc, before, after, timeout, ticks, noCRCMake, diffs, written, patch,
          tamper, src, ppatch, noCRCApply, ppos, spos, out, crcRead, err, ret, nrec,
          pass, script, cleaned, again, bis, half, loop

vars == <<pc, before, after, timeout, ticks, noCRCMake, diffs, written, patch,
          tamper, src, ppatch, noCRCApply, ppos, spos, out, crcRead, err, ret, nrec,
          pass, script, cleaned, again, bis, half, loop>>

makeVars == <<noCRCMake, diffs, written, patch>>
applyVars == <<tamper, src, ppatch, noCRCApply, ppos, spos, out, crcRead, err, ret, nrec>>
cleanVars == <<pass, script, cleaned, again>>

(***************************************************************************)
(* Bounds of the model.                                                    *)
(***************************************************************************)
\* longest before/after text drawn by Init
MaxLen == 4
\* largest number of clock reads that still fall before the deadline
MaxTicks == 3

\* longest before/after text drawn by InitSize
MaxLenSize == 6

\* the length of the long texts drawn by InitWire, one that needs a varint of
\* two bytes
LongLen == 130

\* most records of the edit scripts the cleanup passes are called with, and
\* the longest text of a record
MaxOps == 4
MaxText == 2

\* the data bytes texts are made of: 'a', which is also a hex digit, and 'K',
\* which is also the checksum record's operation byte
Bytes == {97, 75}

Strs(n) == UNION {[1..k -> Bytes] : k \in 0..n}

(***************************************************************************)
(* Program constants.                                                      *)
(***************************************************************************)
Version == 65
OpCopy == 67
OpInsert == 73
OpDelete == 68
OpCRC == 75
DefaultTimeout == 5

diffEditCost == 4

\* the zero time.Time: deadline.IsZero()
NoDeadline == -1

(***************************************************************************)
(* Slices.                                                                 *)
(***************************************************************************)
Slice(s, i, j) == SubSeq(s, i + 1, j)
From(s, i) == SubSeq(s, i + 1, Len(s))
Upto(s, j) == SubSeq(s, 1, j)
At(s, i) == s[i + 1]

Min(a, b) == IF a < b THEN a ELSE b

HasPrefix(s, p) == Len(p) <= Len(s) /\ Upto(s, Len(p)) = p
HasSuffix(s, p) == Len(p) <= Len(s) /\ From(s, Len(s) - Len(p)) = p

\* bytes.Index: first index of sep in s, -1 when absent
RECURSIVE IndexFrom(_, _, _)
IndexFrom(s, sep, i) ==
    IF i + Len(sep) > Len(s) THEN -1
    ELSE IF Slice(s, i, i + Len(sep)) = sep THEN i
    ELSE IndexFrom(s, sep, i + 1)

bytesIndex(s, sep) == IndexFrom(s, sep, 0)

bytesIndexOf(target, pattern, i) ==
    IF i > Len(target) - 2 THEN -1
    ELSE LET ind == bytesIndex(From(target, i), pattern)
         IN IF ind = -1 THEN -1 ELSE ind + i

RECURSIVE PrefixScan(_, _, _)
PrefixScan(text1, text2, n) ==
    IF n < Len(text1) /\ n < Len(text2)
    THEN IF At(text1, n) # At(text2, n) THEN n ELSE PrefixScan(text1, text2, n + 1)
    ELSE n

commonPrefixLength(text1, text2) == PrefixScan(text1, text2, 0)

RECURSIVE SuffixScan(_, _, _)
SuffixScan(text1, text2, n) ==
    LET i1 == Len(text1) - n - 1
        i2 == Len(text2) - n - 1
    IN IF i1 < 0 \/ i2 < 0 \/ At(text1, i1) # At(text2, i2) THEN n
       ELSE SuffixScan(text1, text2, n + 1)

commonSuffixLength(text1, text2) == SuffixScan(text1, text2, 0)

Diff(t, x) == [Type |-> t, Text |-> x]

splice(slice, index, amount, elements) ==
    Upto(slice, index) \o elements \o From(slice, index + amount)

(***************************************************************************)
(* diffCleanupMerge                                                        *)
(***************************************************************************)
\* The first loop's state m: diffs, pointer, countDelete, countInsert,
\* textDelete, textInsert.

\* the common prefix of the collected texts, of length commonlength, moved
\* into the equality before the edits, or into a new one at the front
FactorPrefix(m, commonlength) ==
    IF commonlength = 0 THEN m
    ELSE IF m.pointer - m.countDelete - m.countInsert > 0
            /\ At(m.diffs, m.pointer - m.countDelete - m.countInsert - 1).Type = OpCopy
    THEN [m EXCEPT !.diffs[m.pointer - m.countDelete - m.countInsert].Text =
                       @ \o Upto(m.textInsert, commonlength),
                   !.textInsert = From(@, commonlength),
                   !.textDelete = From(@, commonlength)]
    ELSE [m EXCEPT !.diffs = <<Diff(OpCopy, Upto(m.textInsert, commonlength))>> \o @,
                   !.pointer = @ + 1,
                   !.textInsert = From(@, commonlength),
                   !.textDelete = From(@, commonlength)]

\* the common suffix of the collected texts moved into the equality reached
FactorSuffix(m, commonlength) ==
    IF commonlength = 0 THEN m
    ELSE [m EXCEPT !.diffs[m.pointer + 1].Text =
                       From(m.textInsert, Len(m.textInsert) - commonlength) \o @,
                   !.textInsert = Upto(@, Len(@) - commonlength),
                   !.textDelete = Upto(@, Len(@) - commonlength)]

FactorSuffixOf(m) == FactorSuffix(m, commonSuffixLength(m.textInsert, m.textDelete))

FactorCommon(m) ==
    IF m.countDelete # 0 /\ m.countInsert # 0
    THEN FactorSuffixOf(FactorPrefix(m, commonPrefixLength(m.textInsert, m.textDelete)))
    ELSE m

\* the offending records deleted and the merged ones added
SpliceMerged(m) ==
    [m EXCEPT
       !.diffs = IF m.countDelete = 0
                 THEN splice(@, m.pointer - m.countInsert, m.countDelete + m.countInsert,
                             <<Diff(OpInsert, m.textInsert)>>)
                 ELSE IF m.countInsert = 0
                 THEN splice(@, m.pointer - m.countDelete, m.countDelete + m.countInsert,
                             <<Diff(OpDelete, m.textDelete)>>)
                 ELSE splice(@, m.pointer - m.countDelete - m.countInsert,
                             m.countDelete + m.countInsert,
                             <<Diff(OpDelete, m.textDelete), Diff(OpInsert, m.textInsert)>>),
       !.pointer = @ - m.countDelete - m.countInsert + 1
                   + (IF m.countDelete # 0 THEN 1 ELSE 0)
                   + (IF m.countInsert # 0 THEN 1 ELSE 0)]

\* MergeEdits as it would be had the edits been left as they are
MergeEditsSkipped(m) == [m EXCEPT !.pointer = @ + 1]

\* the OpCopy case of the first loop, when more than one edit precedes it
MergeEdits(m) == SpliceMerged(FactorCommon(m))

\* the end of the OpCopy case
ResetCounts(m) ==
    [m EXCEPT !.countDelete = 0, !.countInsert = 0,
              !.textDelete = <<>>, !.textInsert = <<>>]

RECURSIVE MergeLoop(_)
MergeLoop(m) ==
    IF m.pointer >= Len(m.diffs) THEN m.diffs
    ELSE IF At(m.diffs, m.pointer).Type = OpInsert THEN
        MergeLoop([m EXCEPT !.countInsert = @ + 1,
                            !.textInsert = @ \o At(m.diffs, m.pointer).Text,
                            !.pointer = @ + 1])
    ELSE IF At(m.diffs, m.pointer).Type = OpDelete THEN
        MergeLoop([m EXCEPT !.countDelete = @ + 1,
                            !.textDelete = @ \o At(m.diffs, m.pointer).Text,
                            !.pointer = @ + 1])
    ELSE IF m.countDelete + m.countInsert > 1 THEN
        MergeLoop(ResetCounts(MergeEdits(m)))
    ELSE IF m.pointer # 0 /\ At(m.diffs, m.pointer - 1).Type = OpCopy THEN
        MergeLoop(ResetCounts(
            [m EXCEPT !.diffs = splice([@ EXCEPT ![m.pointer].Text =
                                                     @ \o At(m.diffs, m.pointer).Text],
                                       m.pointer, 1, <<>>)]))
    ELSE MergeLoop(ResetCounts([m EXCEPT !.pointer = @ + 1]))

\* second pass: single edits between two equalities are shifted sideways
RECURSIVE ShiftLoop(_, _, _)
ShiftLoop(ds, pointer, changes) ==
    IF pointer >= Len(ds) - 1 THEN [diffs |-> ds, changes |-> changes]
    ELSE
      LET prev == At(ds, pointer - 1)
          cur == At(ds, pointer)
          next == At(ds, pointer + 1)
      IN IF prev.Type = OpCopy /\ next.Type = OpCopy
         THEN IF HasSuffix(cur.Text, prev.Text)
              THEN ShiftLoop(
                     splice([ds EXCEPT
                               ![pointer + 1].Text = prev.Text \o Upto(cur.Text, Len(cur.Text) - Len(prev.Text)),
                               ![pointer + 2].Text = prev.Text \o next.Text],
                            pointer - 1, 1, <<>>),
                     pointer + 1, TRUE)
              ELSE IF HasPrefix(cur.Text, next.Text)
                   THEN ShiftLoop(
                          splice([ds EXCEPT
                                    ![pointer].Text = prev.Text \o next.Text,
                                    ![pointer + 1].Text = From(cur.Text, Len(next.Text)) \o next.Text],
                                 pointer + 1, 1, <<>>),
                          pointer + 1, TRUE)
                   ELSE ShiftLoop(ds, pointer + 1, changes)
         ELSE ShiftLoop(ds, pointer + 1, changes)

RECURSIVE diffCleanupMerge(_)

\* the dummy entry at the end removed
TrimDummy(merged) ==
    IF Len(merged[Len(merged)].Text) = 0 THEN Upto(merged, Len(merged) - 1) ELSE merged

\* MergeAgain as it would be without the second call after shifts
MergeAgainNever(shifted) == shifted.diffs

\* if shifts were made, the diff needs reordering and another shift sweep
MergeAgain(shifted) ==
    IF shifted.changes THEN diffCleanupMerge(shifted.diffs) ELSE shifted.diffs

diffCleanupMerge(ds) ==
    MergeAgain(ShiftLoop(TrimDummy(MergeLoop(
        [diffs |-> ds \o <<Diff(OpCopy, <<>>)>>, pointer |-> 0,
         countDelete |-> 0, countInsert |-> 0,
         textDelete |-> <<>>, textInsert |-> <<>>])), 1, FALSE))

(***************************************************************************)
(* diffCommonOverlap                                                       *)
(***************************************************************************)
RECURSIVE OverlapScan(_, _, _, _, _)

\* the body of the loop once the pattern was searched for, at index found
OverlapFound(text1, text2, textLength, best, length, found) ==
    IF found = -1 THEN best
    ELSE IF found = 0
            \/ From(text1, textLength - (length + found)) = Upto(text2, length + found)
    THEN OverlapScan(text1, text2, textLength, length + found, length + found + 1)
    ELSE OverlapScan(text1, text2, textLength, best, length + found)

OverlapScan(text1, text2, textLength, best, length) ==
    OverlapFound(text1, text2, textLength, best, length,
                 bytesIndex(text2, From(text1, textLength - length)))

\* diffCommonOverlap once the longer text is truncated
OverlapTruncated(text1, text2, textLength) ==
    IF text1 = text2 THEN textLength
    ELSE OverlapScan(text1, text2, textLength, 0, 1)

diffCommonOverlap(text1, text2) ==
    IF Len(text1) = 0 \/ Len(text2) = 0 THEN 0
    ELSE OverlapTruncated(
           IF Len(text1) > Len(text2) THEN From(text1, Len(text1) - Len(text2)) ELSE text1,
           IF Len(text1) < Len(text2) THEN Upto(text2, Len(text1)) ELSE text2,
           Min(Len(text1), Len(text2)))

(***************************************************************************)
(* diffCleanupSemantic                                                     *)
(***************************************************************************)
\* The first loop's state m: diffs, equalities (the stack of indices, top
\* last), lastequality (nil is the empty text), pointer, lengthInsertions1,
\* lengthDeletions1, lengthInsertions2, lengthDeletions2, changes.

\* math.Max
Max(a, b) == IF a > b THEN a ELSE b

\* the stack of equalities without its top, if it has one
Pop(equalities) ==
    IF Len(equalities) > 0 THEN Upto(equalities, Len(equalities) - 1) ELSE equalities

\* the index the scan goes back to: the top of the stack, -1 when it is empty
BackTo(equalities) ==
    IF Len(equalities) > 0 THEN equalities[Len(equalities)] ELSE -1

\* an equality found
SemanticEquality(m) ==
    [m EXCEPT !.equalities = Append(@, m.pointer),
              !.lengthInsertions1 = m.lengthInsertions2,
              !.lengthDeletions1 = m.lengthDeletions2,
              !.lengthInsertions2 = 0,
              !.lengthDeletions2 = 0,
              !.lastequality = At(m.diffs, m.pointer).Text]

\* an insertion or deletion counted
SemanticCount(m) ==
    IF At(m.diffs, m.pointer).Type = OpInsert
    THEN [m EXCEPT !.lengthInsertions2 = @ + Len(At(m.diffs, m.pointer).Text)]
    ELSE [m EXCEPT !.lengthDeletions2 = @ + Len(At(m.diffs, m.pointer).Text)]

\* SemanticTrivial as it would be had only the edits before the equality counted
SemanticTrivialBefore(m) ==
    /\ Len(m.lastequality) > 0
    /\ Len(m.lastequality) <= Max(m.lengthInsertions1, m.lengthDeletions1)

\* the last equality is no longer than the edits on both sides of it
SemanticTrivial(m) ==
    /\ Len(m.lastequality) > 0
    /\ Len(m.lastequality) <= Max(m.lengthInsertions1, m.lengthDeletions1)
    /\ Len(m.lastequality) <= Max(m.lengthInsertions2, m.lengthDeletions2)

\* the equality at insPoint replaced by a deletion and an insertion of its
\* text, and the scan taken back to the equality before the previous one
SemanticEliminate(m, insPoint) ==
    [m EXCEPT !.diffs = [splice(@, insPoint, 0, <<Diff(OpDelete, m.lastequality)>>)
                           EXCEPT ![insPoint + 2].Type = OpInsert],
              !.equalities = Pop(Pop(@)),
              !.pointer = BackTo(Pop(Pop(m.equalities))),
              !.lengthInsertions1 = 0,
              !.lengthDeletions1 = 0,
              !.lengthInsertions2 = 0,
              !.lengthDeletions2 = 0,
              !.lastequality = <<>>,
              !.changes = TRUE]

\* the edit case once the edit is counted
SemanticEdit(m) ==
    IF SemanticTrivial(m) THEN SemanticEliminate(m, m.equalities[Len(m.equalities)]) ELSE m

\* one iteration of the first loop, pointer++ apart
SemanticStep(m) ==
    IF At(m.diffs, m.pointer).Type = OpCopy THEN SemanticEquality(m)
    ELSE SemanticEdit(SemanticCount(m))

RECURSIVE SemanticLoop(_)
SemanticLoop(m) ==
    IF m.pointer >= Len(m.diffs) THEN m
    ELSE SemanticLoop([SemanticStep(m) EXCEPT !.pointer = @ + 1])

\* "Normalize the diff"
SemanticNormalize(m) ==
    IF m.changes THEN diffCleanupMerge(m.diffs) ELSE m.diffs

\* OverlapSplit as it would be had the insertion kept the overlap
OverlapSplitUntrimmed(ds, pointer, deletion, insertion, overlapLength1) ==
    IF 2 * overlapLength1 >= Len(deletion) \/ 2 * overlapLength1 >= Len(insertion)
    THEN [diffs |-> [splice(ds, pointer, 0, <<Diff(OpCopy, Upto(insertion, overlapLength1))>>)
                       EXCEPT ![pointer].Text = Upto(deletion, Len(deletion) - overlapLength1)],
          pointer |-> pointer + 1]
    ELSE [diffs |-> ds, pointer |-> pointer]

\* an overlap found: an equality inserted and the surrounding edits trimmed
OverlapSplit(ds, pointer, deletion, insertion, overlapLength1) ==
    IF 2 * overlapLength1 >= Len(deletion) \/ 2 * overlapLength1 >= Len(insertion)
    THEN [diffs |-> [splice(ds, pointer, 0, <<Diff(OpCopy, Upto(insertion, overlapLength1))>>)
                       EXCEPT ![pointer].Text = Upto(deletion, Len(deletion) - overlapLength1),
                              ![pointer + 2].Text = From(insertion, overlapLength1)],
          pointer |-> pointer + 1]
    ELSE [diffs |-> ds, pointer |-> pointer]

\* a reverse overlap found: an equality inserted, the surrounding edits
\* swapped and trimmed
OverlapSwap(ds, pointer, deletion, insertion, overlapLength2) ==
    IF 2 * overlapLength2 >= Len(deletion) \/ 2 * overlapLength2 >= Len(insertion)
    THEN [diffs |-> [splice(ds, pointer, 0, <<Diff(OpCopy, Upto(deletion, overlapLength2))>>)
                       EXCEPT ![pointer] = Diff(OpInsert,
                                                Upto(insertion, Len(insertion) - overlapLength2)),
                              ![pointer + 2] = Diff(OpDelete, From(deletion, overlapLength2))],
          pointer |-> pointer + 1]
    ELSE [diffs |-> ds, pointer |-> pointer]

\* OverlapChoose as it would be had the reverse overlap won a tie
OverlapChooseReverse(ds, pointer, deletion, insertion, overlapLength1, overlapLength2) ==
    IF overlapLength1 > overlapLength2
    THEN OverlapSplit(ds, pointer, deletion, insertion, overlapLength1)
    ELSE OverlapSwap(ds, pointer, deletion, insertion, overlapLength2)

\* a deletion followed by an insertion, once both overlaps are measured
OverlapChoose(ds, pointer, deletion, insertion, overlapLength1, overlapLength2) ==
    IF overlapLength1 >= overlapLength2
    THEN OverlapSplit(ds, pointer, deletion, insertion, overlapLength1)
    ELSE OverlapSwap(ds, pointer, deletion, insertion, overlapLength2)

\* one iteration of the second loop, as the script and the pointer it leaves
OverlapStep(ds, pointer) ==
    IF At(ds, pointer - 1).Type = OpDelete /\ At(ds, pointer).Type = OpInsert
    THEN [OverlapChoose(ds, pointer, At(ds, pointer - 1).Text, At(ds, pointer).Text,
                        diffCommonOverlap(At(ds, pointer - 1).Text, At(ds, pointer).Text),
                        diffCommonOverlap(At(ds, pointer).Text, At(ds, pointer - 1).Text))
            EXCEPT !.pointer = @ + 1]
    ELSE [diffs |-> ds, pointer |-> pointer]

\* the second loop: overlaps between deletions and insertions
RECURSIVE OverlapLoop(_)
OverlapLoop(o) ==
    IF o.pointer >= Len(o.diffs) THEN o.diffs
    ELSE OverlapLoop([OverlapStep(o.diffs, o.pointer) EXCEPT !.pointer = @ + 1])

diffCleanupSemantic(ds) ==
    OverlapLoop([diffs |-> SemanticNormalize(SemanticLoop(
                     [diffs |-> ds, equalities |-> <<>>, lastequality |-> <<>>,
                      pointer |-> 0,
                      lengthInsertions1 |-> 0, lengthDeletions1 |-> 0,
                      lengthInsertions2 |-> 0, lengthDeletions2 |-> 0,
                      changes |-> FALSE])),
                 pointer |-> 1])

(***************************************************************************)
(* diffCleanupEfficiency                                                   *)
(***************************************************************************)
\* The loop's state m: diffs, equalities (the linked list as a stack, top
\* last; nil is the empty stack), lastequality, pointer, preIns, preDel,
\* postIns, postDel, changes.

\* an equality found: a candidate, or one that can never become one
EfficiencyEquality(m) ==
    IF Len(At(m.diffs, m.pointer).Text) < diffEditCost /\ (m.postIns \/ m.postDel)
    THEN [m EXCEPT !.equalities = Append(@, m.pointer),
                   !.preIns = m.postIns,
                   !.preDel = m.postDel,
                   !.lastequality = At(m.diffs, m.pointer).Text,
                   !.postIns = FALSE,
                   !.postDel = FALSE]
    ELSE [m EXCEPT !.equalities = <<>>,
                   !.lastequality = <<>>,
                   !.postIns = FALSE,
                   !.postDel = FALSE]

\* an insertion or deletion noted
EfficiencyNote(m) ==
    IF At(m.diffs, m.pointer).Type = OpDelete
    THEN [m EXCEPT !.postDel = TRUE]
    ELSE [m EXCEPT !.postIns = TRUE]

sumPres(m) ==
    (IF m.preIns THEN 1 ELSE 0) + (IF m.preDel THEN 1 ELSE 0)
    + (IF m.postIns THEN 1 ELSE 0) + (IF m.postDel THEN 1 ELSE 0)

\* EfficiencySplits as it would be had three edits sufficed for an equality
\* of any length
EfficiencySplitsAnyThree(m) ==
    /\ Len(m.lastequality) > 0
    /\ \/ m.preIns /\ m.preDel /\ m.postIns /\ m.postDel
       \/ sumPres(m) = 3

\* the last equality is to be split
EfficiencySplits(m) ==
    /\ Len(m.lastequality) > 0
    /\ \/ m.preIns /\ m.preDel /\ m.postIns /\ m.postDel
       \/ Len(m.lastequality) < diffEditCost \div 2 /\ sumPres(m) = 3

\* the equality at insPoint replaced by a deletion and an insertion of its
\* text; the scan goes on, or back to the equality before the previous one
EfficiencySplit(m, insPoint) ==
    IF m.preIns /\ m.preDel
    THEN [m EXCEPT !.diffs = [splice(@, insPoint, 0, <<Diff(OpDelete, m.lastequality)>>)
                                EXCEPT ![insPoint + 2].Type = OpInsert],
                   !.lastequality = <<>>,
                   !.postIns = TRUE,
                   !.postDel = TRUE,
                   !.equalities = <<>>,
                   !.changes = TRUE]
    ELSE [m EXCEPT !.diffs = [splice(@, insPoint, 0, <<Diff(OpDelete, m.lastequality)>>)
                                EXCEPT ![insPoint + 2].Type = OpInsert],
                   !.lastequality = <<>>,
                   !.equalities = Pop(Pop(@)),
                   !.pointer = BackTo(Pop(Pop(m.equalities))),
                   !.postIns = FALSE,
                   !.postDel = FALSE,
                   !.changes = TRUE]

\* the edit case once the edit is noted
EfficiencyEdit(m) ==
    IF EfficiencySplits(m) THEN EfficiencySplit(m, m.equalities[Len(m.equalities)]) ELSE m

\* one iteration of the loop, pointer++ apart
EfficiencyStep(m) ==
    IF At(m.diffs, m.pointer).Type = OpCopy THEN EfficiencyEquality(m)
    ELSE EfficiencyEdit(EfficiencyNote(m))

RECURSIVE EfficiencyLoop(_)
EfficiencyLoop(m) ==
    IF m.pointer >= Len(m.diffs) THEN m
    ELSE EfficiencyLoop([EfficiencyStep(m) EXCEPT !.pointer = @ + 1])

\* the end of diffCleanupEfficiency
EfficiencyNormalize(m) ==
    IF m.changes THEN diffCleanupMerge(m.diffs) ELSE m.diffs

diffCleanupEfficiency(ds) ==
    EfficiencyNormalize(EfficiencyLoop(
        [diffs |-> ds, equalities |-> <<>>, lastequality |-> <<>>, pointer |-> 0,
         preIns |-> FALSE, preDel |-> FALSE, postIns |-> FALSE, postDel |-> FALSE,
         changes |-> FALSE]))

(***************************************************************************)
(* diffHalfMatch.  nil is the empty tuple; a match is the 5-tuple          *)
(* <<text1A, text1B, text2A, text2B, common>>.                             *)
(***************************************************************************)
RECURSIVE HalfMatchScan(_, _, _, _, _, _)
HalfMatchScan(l, s, i, seed, j, best) ==
    IF j = -1 THEN best
    ELSE
      LET prefixLength == commonPrefixLength(From(l, i), From(s, j))
          suffixLength == commonSuffixLength(Upto(l, i), Upto(s, j))
          best1 == IF best.len < suffixLength + prefixLength
                   THEN [len |-> suffixLength + prefixLength,
                         commonA |-> Slice(s, j - suffixLength, j),
                         commonB |-> Slice(s, j, j + prefixLength),
                         longA |-> Upto(l, i - suffixLength),
                         longB |-> From(l, i + prefixLength),
                         shortA |-> Upto(s, j - suffixLength),
                         shortB |-> From(s, j + prefixLength)]
                   ELSE best
      IN HalfMatchScan(l, s, i, seed, bytesIndexOf(s, seed, j + 1), best1)

\* the result of diffHalfMatchI from the best match its loop found
HalfMatchResult(l, best) ==
    IF best.len * 2 < Len(l) THEN <<>>
    ELSE <<best.longA, best.longB, best.shortA, best.shortB,
           best.commonA \o best.commonB>>

\* the loop of diffHalfMatchI from its first seed occurrence
HalfMatchSeed(l, s, i, seed) ==
    HalfMatchScan(l, s, i, seed, bytesIndexOf(s, seed, 0),
                  [len |-> 0, commonA |-> <<>>, commonB |-> <<>>,
                   longA |-> <<>>, longB |-> <<>>,
                   shortA |-> <<>>, shortB |-> <<>>])

diffHalfMatchI(l, s, i) ==
    HalfMatchResult(l, HalfMatchSeed(l, s, i, Slice(l, i, i + (Len(l) \div 4))))

\* HalfMatchOrient as it would be had the match never been turned round
HalfMatchOrientNever(text1, text2, hm) == hm

\* a half-match of (longtext, shorttext) as one of (text1, text2)
HalfMatchOrient(text1, text2, hm) ==
    IF Len(text1) > Len(text2) THEN hm ELSE <<hm[3], hm[4], hm[1], hm[2], hm[5]>>

\* the choice between the half-matches of the second quarter and the third
HalfMatchBest(text1, text2, hm1, hm2) ==
    IF hm1 = <<>> /\ hm2 = <<>> THEN <<>>
    ELSE HalfMatchOrient(text1, text2,
                         IF hm2 = <<>> THEN hm1
                         ELSE IF hm1 = <<>> THEN hm2
                         ELSE IF Len(hm1[5]) > Len(hm2[5]) THEN hm1 ELSE hm2)

HalfMatchOf(text1, text2, longtext, shorttext) ==
    IF Len(longtext) < 4 \/ Len(shorttext) * 2 < Len(longtext) THEN <<>>
    ELSE HalfMatchBest(text1, text2,
                       diffHalfMatchI(longtext, shorttext, (Len(longtext) + 3) \div 4),
                       diffHalfMatchI(longtext, shorttext, (Len(longtext) + 1) \div 2))

\* diffHalfMatch as it would be had it looked for a match without a deadline too
diffHalfMatchAlways(text1, text2, unlimitedTime) ==
    IF Len(text1) > Len(text2) THEN HalfMatchOf(text1, text2, text1, text2)
    ELSE HalfMatchOf(text1, text2, text2, text1)

diffHalfMatch(text1, text2, unlimitedTime) ==
    IF unlimitedTime THEN <<>>
    ELSE IF Len(text1) > Len(text2) THEN HalfMatchOf(text1, text2, text1, text2)
    ELSE HalfMatchOf(text1, text2, text2, text1)

(***************************************************************************)
(* diffBisect.  The deadline is the number of clock reads that still fall  *)
(* before it (NoDeadline for the zero time): time.Now().After(deadline) is *)
(* false for that many reads and true from then on.  Every function that   *)
(* reads the clock returns the remaining count with its script.            *)
(***************************************************************************)
RECURSIVE Snake(_, _, _, _)
Snake(runes1, runes2, x, y) ==
    IF x < Len(runes1) /\ y < Len(runes2)
    THEN IF At(runes1, x) # At(runes2, y) THEN x ELSE Snake(runes1, runes2, x + 1, y + 1)
    ELSE x

RECURSIVE RSnake(_, _, _, _)
RSnake(runes1, runes2, x, y) ==
    IF x < Len(runes1) /\ y < Len(runes2)
    THEN IF At(runes1, Len(runes1) - x - 1) # At(runes2, Len(runes2) - y - 1) THEN x
         ELSE RSnake(runes1, runes2, x + 1, y + 1)
    ELSE x

maxDOf(runes1, runes2) == (Len(runes1) + Len(runes2) + 1) \div 2

\* An index outside its slice panics; b.panic records that the search was
\* left that way.

\* the indices of v1 (or v2) one iteration of a walk uses are inside it:
\* kOffset+1 alone when k = -d, kOffset-1 alone when k = d, both otherwise,
\* and kOffset for the write
WalkInRange(vLength, d, k, kOffset) ==
    /\ (k = -d \/ k # d) => (kOffset + 1 >= 0 /\ kOffset + 1 < vLength)
    /\ k # -d => (kOffset - 1 >= 0 /\ kOffset - 1 < vLength)
    /\ kOffset >= 0 /\ kOffset < vLength

\* the bytes a snake from (x, y) compares are inside the texts: the loop
\* guards the upper ends only
SnakeInRange(runes1, runes2, x, y) ==
    (x < Len(runes1) /\ y < Len(runes2)) => (x >= 0 /\ y >= 0)

\* the loop over k1: walk the front path one step
RECURSIVE FrontWalk(_, _, _, _, _)
FrontWalk(runes1, runes2, b, d, k1) ==
    IF k1 > d - b.k1end THEN b
    ELSE
      LET vOffset == maxDOf(runes1, runes2)
          vLength == 2 * vOffset
          delta == Len(runes1) - Len(runes2)
          front == delta % 2 # 0
          k1Offset == vOffset + k1
          x0 == IF k1 = -d \/ (k1 # d /\ b.v1[k1Offset - 1] < b.v1[k1Offset + 1])
                THEN b.v1[k1Offset + 1]
                ELSE b.v1[k1Offset - 1] + 1
          x1 == Snake(runes1, runes2, x0, x0 - k1)
          y1 == x1 - k1
          b1 == [b EXCEPT !.v1[k1Offset] = x1]
          k2Offset == vOffset + delta - k1
      IN IF ~WalkInRange(vLength, d, k1, k1Offset)
            \/ ~SnakeInRange(runes1, runes2, x0, x0 - k1)
         THEN [b EXCEPT !.panic = TRUE]
         ELSE IF x1 > Len(runes1)
         THEN FrontWalk(runes1, runes2, [b1 EXCEPT !.k1end = @ + 2], d, k1 + 2)
         ELSE IF y1 > Len(runes2)
         THEN FrontWalk(runes1, runes2, [b1 EXCEPT !.k1start = @ + 2], d, k1 + 2)
         ELSE IF front /\ k2Offset >= 0 /\ k2Offset < vLength /\ b1.v2[k2Offset] # -1
                 /\ x1 >= Len(runes1) - b1.v2[k2Offset]
         THEN [b1 EXCEPT !.split = <<x1, y1>>]
         ELSE FrontWalk(runes1, runes2, b1, d, k1 + 2)

\* the loop over k2: walk the reverse path one step
RECURSIVE ReverseWalk(_, _, _, _, _)
ReverseWalk(runes1, runes2, b, d, k2) ==
    IF k2 > d - b.k2end THEN b
    ELSE
      LET vOffset == maxDOf(runes1, runes2)
          vLength == 2 * vOffset
          delta == Len(runes1) - Len(runes2)
          front == delta % 2 # 0
          k2Offset == vOffset + k2
          x0 == IF k2 = -d \/ (k2 # d /\ b.v2[k2Offset - 1] < b.v2[k2Offset + 1])
                THEN b.v2[k2Offset + 1]
                ELSE b.v2[k2Offset - 1] + 1
          x2 == RSnake(runes1, runes2, x0, x0 - k2)
          y2 == x2 - k2
          b1 == [b EXCEPT !.v2[k2Offset] = x2]
          k1Offset == vOffset + delta - k2
      IN IF ~WalkInRange(vLength, d, k2, k2Offset)
            \/ ~SnakeInRange(runes1, runes2, x0, x0 - k2)
         THEN [b EXCEPT !.panic = TRUE]
         ELSE IF x2 > Len(runes1)
         THEN ReverseWalk(runes1, runes2, [b1 EXCEPT !.k2end = @ + 2], d, k2 + 2)
         ELSE IF y2 > Len(runes2)
         THEN ReverseWalk(runes1, runes2, [b1 EXCEPT !.k2start = @ + 2], d, k2 + 2)
         ELSE IF ~front /\ k1Offset >= 0 /\ k1Offset < vLength /\ b1.v1[k1Offset] # -1
                 /\ b1.v1[k1Offset] >= Len(runes1) - x2
         THEN [b1 EXCEPT !.split = <<b1.v1[k1Offset], vOffset + b1.v1[k1Offset] - k1Offset>>]
         ELSE ReverseWalk(runes1, runes2, b1, d, k2 + 2)

\* Consulted as it would be had the clock been read at every iteration
ConsultedEveryStep(deadline, d) == deadline # NoDeadline

\* iteration d reads the clock: !deadline.IsZero() && d%16 == 0
Consulted(deadline, d) == deadline # NoDeadline /\ d % 16 = 0

\* the loop over d; b.split is <<x, y>> once an overlap was detected, b.d is
\* the value of d the loop was left with
RECURSIVE BisectLoop(_, _, _, _)
BisectLoop(runes1, runes2, b, d) ==
    IF d >= maxDOf(runes1, runes2) THEN [b EXCEPT !.d = d]
    ELSE IF Consulted(b.deadline, d) /\ b.deadline = 0 THEN [b EXCEPT !.d = d]
    ELSE
      LET b0 == IF Consulted(b.deadline, d)
                THEN [b EXCEPT !.deadline = @ - 1, !.d = d] ELSE [b EXCEPT !.d = d]
          b1 == FrontWalk(runes1, runes2, b0, d, -d + b0.k1start)
          b2 == ReverseWalk(runes1, runes2, b1, d, -d + b1.k2start)
      IN IF b1.panic \/ b1.split # <<>> THEN b1
         ELSE IF b2.panic \/ b2.split # <<>> THEN b2
         ELSE BisectLoop(runes1, runes2, b2, d + 1)

\* BisectSearch as it would be had the starting point been taken for the
\* overlap
BisectSearchAtStart(runes1, runes2, deadline) ==
    [v1 |-> <<>>, v2 |-> <<>>, k1start |-> 0, k1end |-> 0, k2start |-> 0, k2end |-> 0,
     split |-> <<0, 0>>, deadline |-> deadline, d |-> 0, panic |-> FALSE]

BisectSearch(runes1, runes2, deadline) ==
    LET maxD == maxDOf(runes1, runes2)
        vOffset == maxD
        vLength == 2 * maxD
        v == [i \in 0..(vLength - 1) |-> IF i = vOffset + 1 THEN 0 ELSE -1]
    IN IF vOffset + 1 >= vLength
       THEN [v1 |-> v, v2 |-> v, k1start |-> 0, k1end |-> 0,
             k2start |-> 0, k2end |-> 0, split |-> <<>>, deadline |-> deadline,
             d |-> 0, panic |-> TRUE]
       ELSE BisectLoop(runes1, runes2,
                       [v1 |-> v, v2 |-> v, k1start |-> 0, k1end |-> 0,
                        k2start |-> 0, k2end |-> 0, split |-> <<>>, deadline |-> deadline,
                        d |-> 0, panic |-> FALSE], 0)

RECURSIVE diffMainBytes(_, _, _)
RECURSIVE diffCompute(_, _, _)
RECURSIVE diffBisect(_, _, _)
RECURSIVE diffBisectSplit(_, _, _, _, _)

\* JoinDiffs as it would be had the middle been left out
JoinDiffsNoMid(diffsa, mid, diffsb) ==
    [diffs |-> diffsa.diffs \o diffsb.diffs, deadline |-> diffsb.deadline]

\* the two halves of a split joined; the second half ran after the first
JoinDiffs(diffsa, mid, diffsb) ==
    [diffs |-> diffsa.diffs \o mid \o diffsb.diffs, deadline |-> diffsb.deadline]

\* the second half of a split, computed once the first is
SplitSecond(runes1b, runes2b, diffsa) ==
    JoinDiffs(diffsa, <<>>, diffMainBytes(runes1b, runes2b, diffsa.deadline))

diffBisectSplit(runes1, runes2, x, y, deadline) ==
    SplitSecond(From(runes1, x), From(runes2, y),
                diffMainBytes(Upto(runes1, x), Upto(runes2, y), deadline))

\* BisectResult as it would be had the script returned when the deadline
\* passes lost its Delete
BisectResultNoDelete(runes1, runes2, b) ==
    IF b.split # <<>>
    THEN diffBisectSplit(runes1, runes2, b.split[1], b.split[2], b.deadline)
    ELSE [diffs |-> <<Diff(OpInsert, runes2)>>, deadline |-> b.deadline]

\* what diffBisect returns once its search ended in state b: the split at the
\* overlap, or one Delete and one Insert
BisectResult(runes1, runes2, b) ==
    IF b.split # <<>>
    THEN diffBisectSplit(runes1, runes2, b.split[1], b.split[2], b.deadline)
    ELSE [diffs |-> <<Diff(OpDelete, runes1), Diff(OpInsert, runes2)>>,
          deadline |-> b.deadline]

\* diffBisect as it would be had it never searched
diffBisectGivesUp(runes1, runes2, deadline) ==
    [diffs |-> <<Diff(OpDelete, runes1), Diff(OpInsert, runes2)>>, deadline |-> deadline]

diffBisect(runes1, runes2, deadline) ==
    BisectResult(runes1, runes2, BisectSearch(runes1, runes2, deadline))

\* the half-match case of diffCompute: both pairs processed separately
HalfMatchSecond(hm, diffsA) ==
    JoinDiffs(diffsA, <<Diff(OpCopy, hm[5])>>, diffMainBytes(hm[2], hm[4], diffsA.deadline))

\* diffCompute once the half-match hm is known
ComputeHalf(text1, text2, hm, deadline) ==
    IF hm # <<>>
    THEN HalfMatchSecond(hm, diffMainBytes(hm[1], hm[3], deadline))
    ELSE diffBisect(text1, text2, deadline)

\* diffCompute once shorttext was searched for in longtext, at index i
ComputeLong(text1, text2, longtext, shorttext, op, i, deadline) ==
    IF i # -1
    THEN [diffs |-> <<Diff(op, Upto(longtext, i)), Diff(OpCopy, shorttext),
                      Diff(op, From(longtext, i + Len(shorttext)))>>,
          deadline |-> deadline]
    ELSE IF Len(shorttext) = 1
    THEN [diffs |-> <<Diff(OpDelete, text1), Diff(OpInsert, text2)>>,
          deadline |-> deadline]
    ELSE ComputeHalf(text1, text2, diffHalfMatch(text1, text2, deadline = NoDeadline),
                     deadline)

diffCompute(text1, text2, deadline) ==
    IF Len(text1) = 0 THEN [diffs |-> <<Diff(OpInsert, text2)>>, deadline |-> deadline]
    ELSE IF Len(text2) = 0 THEN [diffs |-> <<Diff(OpDelete, text1)>>, deadline |-> deadline]
    ELSE IF Len(text1) > Len(text2)
    THEN ComputeLong(text1, text2, text1, text2, OpDelete, bytesIndex(text1, text2), deadline)
    ELSE ComputeLong(text1, text2, text2, text1, OpInsert, bytesIndex(text2, text1), deadline)

\* LongCase as it would be without the single character shortcut
LongCaseNoSingle(text1, text2, shorttext, i, deadline) ==
    IF i # -1 THEN "inside"
    ELSE IF diffHalfMatch(text1, text2, deadline = NoDeadline) # <<>> THEN "half"
    ELSE "bisect"

\* the branch diffCompute takes once shorttext was searched for in longtext,
\* at index i
LongCase(text1, text2, shorttext, i, deadline) ==
    IF i # -1 THEN "inside"
    ELSE IF Len(shorttext) = 1 THEN "single"
    ELSE IF diffHalfMatch(text1, text2, deadline = NoDeadline) # <<>> THEN "half"
    ELSE "bisect"

\* the branch diffCompute takes: the return it leaves by
ComputeCase(text1, text2, deadline) ==
    IF Len(text1) = 0 THEN "insert"
    ELSE IF Len(text2) = 0 THEN "delete"
    ELSE IF Len(text1) > Len(text2)
    THEN LongCase(text1, text2, text2, bytesIndex(text1, text2), deadline)
    ELSE LongCase(text1, text2, text1, bytesIndex(text2, text1), deadline)

\* the middle block diffMainBytes passes to diffCompute: the texts without
\* their common prefix, then without their common suffix
MiddleOf(t1, t2, commonlength) ==
    <<Upto(t1, Len(t1) - commonlength), Upto(t2, Len(t2) - commonlength)>>

Middle(text1, text2, commonlength) ==
    MiddleOf(From(text1, commonlength), From(text2, commonlength),
             commonSuffixLength(From(text1, commonlength), From(text2, commonlength)))

\* the script c of the middle with the common prefix and suffix restored,
\* then merged
RestoreAffixes(commonprefix, commonsuffix, c) ==
    [diffs |-> diffCleanupMerge(
                   (IF Len(commonprefix) # 0 THEN <<Diff(OpCopy, commonprefix)>> ELSE <<>>)
                   \o c.diffs
                   \o (IF Len(commonsuffix) # 0 THEN <<Diff(OpCopy, commonsuffix)>> ELSE <<>>)),
     deadline |-> c.deadline]

\* diffMainBytes once the common prefix is cut off and the common suffix
\* measured
TrimSuffix(commonprefix, t1, t2, commonlength, deadline) ==
    RestoreAffixes(commonprefix, From(t1, Len(t1) - commonlength),
                   diffCompute(Upto(t1, Len(t1) - commonlength),
                               Upto(t2, Len(t2) - commonlength), deadline))

\* diffMainBytes once the common prefix is measured
TrimPrefix(text1, text2, commonlength, deadline) ==
    TrimSuffix(Upto(text1, commonlength), From(text1, commonlength),
               From(text2, commonlength),
               commonSuffixLength(From(text1, commonlength), From(text2, commonlength)),
               deadline)

\* diffMainBytes as it would be without its test for equal texts
diffMainBytesNoShortcut(text1, text2, deadline) ==
    TrimPrefix(text1, text2, commonPrefixLength(text1, text2), deadline)

diffMainBytes(text1, text2, deadline) ==
    IF text1 = text2
    THEN [diffs |-> IF Len(text1) > 0 THEN <<Diff(OpCopy, text1)>> ELSE <<>>,
          deadline |-> deadline]
    ELSE TrimPrefix(text1, text2, commonPrefixLength(text1, text2), deadline)

\* a positive timeout sets the deadline, which 'expiry' clock reads precede
diffMain(text1, text2, tmo, expiry) ==
    diffMainBytes(text1, text2, IF tmo > 0 THEN expiry ELSE NoDeadline).diffs

\* the source text (Copy+Delete payloads) and target text (Copy+Insert payloads)
RECURSIVE Text1Of(_)
Text1Of(ds) ==
    IF ds = <<>> THEN <<>>
    ELSE (IF Head(ds).Type # OpInsert THEN Head(ds).Text ELSE <<>>) \o Text1Of(Tail(ds))

RECURSIVE Text2Of(_)
Text2Of(ds) ==
    IF ds = <<>> THEN <<>>
    ELSE (IF Head(ds).Type # OpDelete THEN Head(ds).Text ELSE <<>>) \o Text2Of(Tail(ds))

(***************************************************************************)
(* CRC-32 (IEEE), hash/crc32.  A 32-bit word is a sequence of 32 bits,     *)
(* least significant first.                                                *)
(***************************************************************************)
\* 0xEDB88320, least significant bit first
IEEEPoly == <<0,0,0,0, 0,1,0,0, 1,1,0,0, 0,0,0,1, 0,0,0,1, 1,1,0,1, 1,0,1,1, 0,1,1,1>>

Pow2(i) == CASE i = 0 -> 1 [] i = 1 -> 2 [] i = 2 -> 4 [] i = 3 -> 8
             [] i = 4 -> 16 [] i = 5 -> 32 [] i = 6 -> 64 [] i = 7 -> 128

\* the exclusive or of two words
XorWord(p, q) == SubSeq([i \in 1..32 |-> (p[i] + q[i]) % 2], 1, 32)

\* a byte as a word
ByteWord(b) == SubSeq([i \in 1..32 |-> IF i <= 8 THEN (b \div Pow2(i - 1)) % 2 ELSE 0], 1, 32)

OnesWord == SubSeq([i \in 1..32 |-> 1], 1, 32)

ZeroCRC == SubSeq([i \in 1..32 |-> 0], 1, 32)

\* n rounds of: shift right by one bit, xor the polynomial in if a 1 fell off
RECURSIVE crcRounds(_, _)
crcRounds(c, n) ==
    IF n = 0 THEN c
    ELSE IF c[1] = 1 THEN crcRounds(XorWord(Tail(c) \o <<0>>, IEEEPoly), n - 1)
    ELSE crcRounds(Tail(c) \o <<0>>, n - 1)

\* the register c, a word, after the bytes of data: each byte is xored into
\* the low eight bits of the register, then eight rounds
RECURSIVE crcUpdate(_, _)
crcUpdate(c, data) ==
    IF data = <<>> \/ Len(c) # 32 THEN c
    ELSE crcUpdate(crcRounds(XorWord(c, ByteWord(Head(data))), 8), Tail(data))

ChecksumIEEE(data) == XorWord(crcUpdate(OnesWord, data), OnesWord)

\* the k-th byte of a word, k = 0 the least significant
WordByte(w, k) ==
    w[8*k + 1] + 2 * w[8*k + 2] + 4 * w[8*k + 3] + 8 * w[8*k + 4]
    + 16 * w[8*k + 5] + 32 * w[8*k + 6] + 64 * w[8*k + 7] + 128 * w[8*k + 8]

\* hash.Sum: the digest in big-endian byte order
crcSum(w) == <<WordByte(w, 3), WordByte(w, 2), WordByte(w, 1), WordByte(w, 0)>>

(***************************************************************************)
(* encoding/binary varints.                                                *)
(***************************************************************************)
MaxVarintLen64 == 10

\* PutUvarint as it would be had the length been written as one byte
PutUvarintOneByte(x) == <<x % 256>>

RECURSIVE PutUvarint(_)
PutUvarint(x) ==
    IF x >= 128 THEN <<128 + (x % 128)>> \o PutUvarint(x \div 128) ELSE <<x>>

\* the 7-bit groups, least significant first, of a value that ReadUvarint
\* accepted, as the uint64 it returns: small values as a number, and of the
\* others only what int64(tl) keeps of them, the sign
RECURSIVE GroupsValue(_)
GroupsValue(g) == IF g = <<>> THEN 0 ELSE Head(g) + 128 * GroupsValue(Tail(g))

UvarintOf(g) ==
    LET high == {i \in 5..Len(g) : g[i] # 0}
    IN [big |-> high # {},
        neg |-> Len(g) = 10 /\ g[10] = 1,
        n |-> IF high = {} THEN GroupsValue(g) ELSE 0]

RECURSIVE ReadUvarintLoop(_, _, _, _)
ReadUvarintLoop(p, pos, i, g) ==
    IF i >= MaxVarintLen64 THEN [err |-> "overflow", pos |-> pos, tl |-> UvarintOf(g)]
    ELSE IF pos >= Len(p)
    THEN [err |-> IF i > 0 THEN "ErrUnexpectedEOF" ELSE "EOF", pos |-> pos, tl |-> UvarintOf(g)]
    ELSE LET b == At(p, pos) IN
         IF b < 128
         THEN IF i = MaxVarintLen64 - 1 /\ b > 1
              THEN [err |-> "overflow", pos |-> pos + 1, tl |-> UvarintOf(g)]
              ELSE [err |-> "nil", pos |-> pos + 1, tl |-> UvarintOf(g \o <<b>>)]
         ELSE ReadUvarintLoop(p, pos + 1, i + 1, g \o <<b % 128>>)

ReadUvarint(p, pos) == ReadUvarintLoop(p, pos, 0, <<>>)

(***************************************************************************)
(* The streaming binary codec: MakePatchTimeout and ApplyPatch over        *)
(* io.Reader / io.Writer.                                                  *)
(***************************************************************************)
RECURSIVE UvarintLen(_)
UvarintLen(x) == IF x >= 128 THEN 1 + UvarintLen(x \div 128) ELSE 1

RECURSIVE encodedLen(_)
encodedLen(ds) ==
    IF ds = <<>> THEN 0
    ELSE 1 + UvarintLen(Len(Head(ds).Text))
         + (IF Head(ds).Type = OpInsert THEN Len(Head(ds).Text) ELSE 0)
         + encodedLen(Tail(ds))

naiveDiff(afterBytes) == <<Diff(OpInsert, afterBytes)>>

\* ChooseDiffs as it would be with <= in place of <
ChooseDiffsOnTie(ds, afterBytes) ==
    IF encodedLen(naiveDiff(afterBytes)) <= encodedLen(ds) THEN naiveDiff(afterBytes) ELSE ds

\* the script MakePatchTimeout writes: the naive one when it encodes shorter
ChooseDiffs(ds, afterBytes) ==
    IF encodedLen(naiveDiff(afterBytes)) < encodedLen(ds) THEN naiveDiff(afterBytes) ELSE ds

\* WriteDiffs as it would be had it written the text of every record
RECURSIVE WriteDiffsAllText(_)
WriteDiffsAllText(ds) ==
    IF ds = <<>> THEN <<>>
    ELSE <<Head(ds).Type>> \o PutUvarint(Len(Head(ds).Text)) \o Head(ds).Text
         \o WriteDiffsAllText(Tail(ds))

RECURSIVE WriteDiffs(_)
WriteDiffs(ds) ==
    IF ds = <<>> THEN <<>>
    ELSE <<Head(ds).Type>> \o PutUvarint(Len(Head(ds).Text))
         \o (IF Head(ds).Type = OpInsert THEN Head(ds).Text ELSE <<>>)
         \o WriteDiffs(Tail(ds))

WritePatch(ds, afterBytes) == WriteDiffs(ds) \o <<OpCRC>> \o crcSum(ChecksumIEEE(afterBytes))

\* io.CopyN(dst, r, int64(tl)) from stream s at offset pos: the bytes copied
\* and the error.  A negative count copies nothing and reports no error.
CopyN(s, pos, tl) ==
    LET rem == Len(s) - pos
        k == IF tl.neg THEN 0 ELSE IF tl.big THEN rem ELSE Min(tl.n, rem)
    IN [bytes |-> Slice(s, pos, pos + k), pos |-> pos + k,
        err |-> IF tl.neg THEN "nil"
                ELSE IF tl.big \/ k < tl.n THEN "EOF" ELSE "nil"]

\* Discard as it would be had the reader stayed where it was
DiscardStays(s, pos, tl) == [pos |-> pos, err |-> "nil"]

\* bufio.Reader.Discard(int(tl))
Discard(s, pos, tl) ==
    LET rem == Len(s) - pos
        k == IF tl.neg THEN 0 ELSE IF tl.big THEN rem ELSE Min(tl.n, rem)
    IN [pos |-> pos + k,
        err |-> IF tl.neg THEN "ErrNegativeCount"
                ELSE IF tl.big \/ k < tl.n THEN "EOF" ELSE "nil"]

\* one byte of s replaced by another data byte
Corruptions(s) ==
    {[s EXCEPT ![i] = b] : i \in 1..Len(s), b \in Bytes} \ {s}

\* what may follow a finished binary patch: a stray byte, a second checksum
\* operation byte, a whole Insert record
ExtraData == {<<42>>, <<OpCRC>>, <<OpInsert, 1, 97>>}

\* bytes a damaged hex-text patch may hold in place of its own: a byte that
\* is neither a digit nor an operation, a hex digit, an operation byte
GarbleBytes == {90, 102, OpCopy}

\* one byte after the version byte of p replaced by one of GarbleBytes
Garbles(p) ==
    {[p EXCEPT ![i] = b] : i \in 2..Len(p), b \in GarbleBytes} \ {p}

\* what may follow a finished hex-text patch
ExtraText == {<<42>>, <<OpCRC>>, <<49, OpInsert, 97>>}

\* the state before any call, with texts of at most n bytes
Start(n) ==
    /\ pc = "init"
    /\ before \in Strs(n)
    /\ after \in Strs(n)
    /\ timeout \in {0, DefaultTimeout}
    /\ ticks \in 0..MaxTicks
    /\ (timeout = 0 => ticks = 0)
    /\ noCRCMake = FALSE
    /\ diffs = <<>> /\ written = <<>> /\ patch = <<>>
    /\ tamper = "none" /\ src = <<>> /\ ppatch = <<>> /\ noCRCApply = FALSE
    /\ ppos = 0 /\ spos = 0 /\ out = <<>> /\ crcRead = FALSE
    /\ err = "nil" /\ ret = <<>> /\ nrec = 0
    /\ pass = "none" /\ script = <<>> /\ cleaned = <<>> /\ again = <<>>
    /\ bis = <<>> /\ half = <<>> /\ loop = <<>>

Init == Start(MaxLen)

(***************************************************************************)
(* The diff engine on its own.                                             *)
(***************************************************************************)
DiffMain ==
    /\ pc = "init"
    /\ pc' = "diffed"
    /\ diffs' = diffMain(before, after, timeout, ticks)
    /\ UNCHANGED <<before, after, timeout, ticks, noCRCMake, written, patch>>
    /\ UNCHANGED applyVars
    /\ UNCHANGED cleanVars
    /\ UNCHANGED <<bis, half, loop>>

NextDiff == DiffMain

SpecDiff == Init /\ [][NextDiff]_vars

(***************************************************************************)
(* The cleanup passes on their own, called with any edit script and then   *)
(* called again with the script they returned.                             *)
(***************************************************************************)
\* the records of an edit script with texts of at most n bytes
Records(n) == [Type : {OpCopy, OpInsert, OpDelete}, Text : Strs(n)]

\* the edit scripts of at most k records with texts of at most n bytes
ScriptsOf(k, n) == UNION {[1..j -> Records(n)] : j \in 0..k}

\* the scripts the passes are called with: few records with longer texts, and
\* more records with texts of at most one byte
Scripts == ScriptsOf(MaxOps, MaxText) \cup ScriptsOf(MaxOps + 1, 1)

CleanupPass(p, ds) ==
    CASE p = "merge" -> diffCleanupMerge(ds)
      [] p = "semantic" -> diffCleanupSemantic(ds)
      [] p = "efficiency" -> diffCleanupEfficiency(ds)

InitClean ==
    \/ Init
    \/ /\ pc = "script"
       /\ script \in Scripts
       /\ pass = "none" /\ cleaned = <<>> /\ again = <<>> /\ bis = <<>> /\ half = <<>> /\ loop = <<>>
       /\ before = <<>> /\ after = <<>> /\ timeout = 0 /\ ticks = 0
       /\ noCRCMake = FALSE
       /\ diffs = <<>> /\ written = <<>> /\ patch = <<>>
       /\ tamper = "none" /\ src = <<>> /\ ppatch = <<>> /\ noCRCApply = FALSE
       /\ ppos = 0 /\ spos = 0 /\ out = <<>> /\ crcRead = FALSE
       /\ err = "nil" /\ ret = <<>> /\ nrec = 0

CleanupMerge ==
    /\ pc = "script"
    /\ pc' = "cleaned"
    /\ pass' = "merge"
    /\ cleaned' = diffCleanupMerge(script)
    /\ UNCHANGED <<script, again, before, after, timeout, ticks>>
    /\ UNCHANGED makeVars
    /\ UNCHANGED applyVars
    /\ UNCHANGED <<bis, half, loop>>

CleanupSemantic ==
    /\ pc = "script"
    /\ pc' = "cleaned"
    /\ pass' = "semantic"
    /\ cleaned' = diffCleanupSemantic(script)
    /\ UNCHANGED <<script, again, before, after, timeout, ticks>>
    /\ UNCHANGED makeVars
    /\ UNCHANGED applyVars
    /\ UNCHANGED <<bis, half, loop>>

CleanupEfficiency ==
    /\ pc = "script"
    /\ pc' = "cleaned"
    /\ pass' = "efficiency"
    /\ cleaned' = diffCleanupEfficiency(script)
    /\ UNCHANGED <<script, again, before, after, timeout, ticks>>
    /\ UNCHANGED makeVars
    /\ UNCHANGED applyVars
    /\ UNCHANGED <<bis, half, loop>>

\* the same pass called with the script it returned
CleanupAgain ==
    /\ pc = "cleaned"
    /\ pc' = "recleaned"
    /\ again' = CleanupPass(pass, cleaned)
    /\ UNCHANGED <<pass, script, cleaned, before, after, timeout, ticks>>
    /\ UNCHANGED makeVars
    /\ UNCHANGED applyVars
    /\ UNCHANGED <<bis, half, loop>>

NextClean == DiffMain \/ CleanupMerge \/ CleanupSemantic \/ CleanupEfficiency \/ CleanupAgain

SpecClean == InitClean /\ [][NextClean]_vars


(***************************************************************************)
(* diffCleanupSemantic one iteration at a time: the first loop, the        *)
(* normalisation, the second loop.  loop is the state of the loop that is  *)
(* running.                                                                *)
(***************************************************************************)
\* most records of a script the loops are stepped through
SweepOps == 6

\* equalities of up to two bytes and edits of one or two bytes of another letter
SweepRecords ==
    {Diff(OpCopy, t) : t \in {<<>>, <<97>>, <<97, 97>>}}
    \cup {Diff(op, t) : op \in {OpInsert, OpDelete}, t \in {<<75>>, <<75, 75>>}}

SweepScripts == UNION {[1..j -> SweepRecords] : j \in 0..SweepOps}

\* a deletion followed by an insertion, of texts of up to MaxLen bytes
OverlapScripts ==
    {<<Diff(OpDelete, d), Diff(OpInsert, i)>> : d \in Strs(MaxLen), i \in Strs(MaxLen)}

\* scripts of TestDiffCleanupSemantic
NoElimination1 == <<Diff(OpDelete, <<97, 98>>), Diff(OpInsert, <<99, 100>>), Diff(OpCopy, <<49, 50>>), Diff(OpDelete, <<101>>)>>
SimpleElimination == <<Diff(OpDelete, <<97>>), Diff(OpCopy, <<98>>), Diff(OpDelete, <<99>>)>>
NoOverlapElimination == <<Diff(OpDelete, <<97, 98, 99, 120, 120>>), Diff(OpInsert, <<120, 120, 100, 101, 102>>)>>
OverlapElimination == <<Diff(OpDelete, <<97, 98, 99, 120, 120, 120>>), Diff(OpInsert, <<120, 120, 120, 100, 101, 102>>)>>
ReverseOverlapElimination == <<Diff(OpDelete, <<120, 120, 120, 97, 98, 99>>), Diff(OpInsert, <<100, 101, 102, 120, 120, 120>>)>>

SemanticTests ==
    {NoElimination1, SimpleElimination, NoOverlapElimination, OverlapElimination,
     ReverseOverlapElimination}

\* the state a cleanup pass is called in with one of the scripts of S
ScriptIn(S) ==
    /\ pc = "script"
    /\ script \in S
    /\ pass = "none" /\ cleaned = <<>> /\ again = <<>> /\ bis = <<>> /\ half = <<>>
    /\ loop = <<>>
    /\ before = <<>> /\ after = <<>> /\ timeout = 0 /\ ticks = 0
    /\ noCRCMake = FALSE
    /\ diffs = <<>> /\ written = <<>> /\ patch = <<>>
    /\ tamper = "none" /\ src = <<>> /\ ppatch = <<>> /\ noCRCApply = FALSE
    /\ ppos = 0 /\ spos = 0 /\ out = <<>> /\ crcRead = FALSE
    /\ err = "nil" /\ ret = <<>> /\ nrec = 0

InitSweep == ScriptIn(SweepScripts \cup OverlapScripts \cup SemanticTests)

\* what a step of a loop leaves alone
LoopFrame ==
    /\ UNCHANGED <<script, cleaned, again, before, after, timeout, ticks, bis, half>>
    /\ UNCHANGED makeVars
    /\ UNCHANGED applyVars

SemanticBegin ==
    /\ pc = "script"
    /\ pc' = "sweep1"
    /\ pass' = "semantic"
    /\ loop' = [diffs |-> script, equalities |-> <<>>, lastequality |-> <<>>,
                pointer |-> 0,
                lengthInsertions1 |-> 0, lengthDeletions1 |-> 0,
                lengthInsertions2 |-> 0, lengthDeletions2 |-> 0,
                changes |-> FALSE]
    /\ LoopFrame

SemanticIter ==
    /\ pc = "sweep1"
    /\ loop.pointer < Len(loop.diffs)
    /\ loop' = [SemanticStep(loop) EXCEPT !.pointer = @ + 1]
    /\ UNCHANGED <<pc, pass>>
    /\ LoopFrame

SemanticEnd ==
    /\ pc = "sweep1"
    /\ loop.pointer >= Len(loop.diffs)
    /\ pc' = "sweep2"
    /\ loop' = [diffs |-> SemanticNormalize(loop), pointer |-> 1]
    /\ UNCHANGED pass
    /\ LoopFrame

OverlapIter ==
    /\ pc = "sweep2"
    /\ loop.pointer < Len(loop.diffs)
    /\ loop' = [OverlapStep(loop.diffs, loop.pointer) EXCEPT !.pointer = @ + 1]
    /\ UNCHANGED <<pc, pass>>
    /\ LoopFrame

OverlapEnd ==
    /\ pc = "sweep2"
    /\ loop.pointer >= Len(loop.diffs)
    /\ pc' = "cleaned"
    /\ cleaned' = loop.diffs
    /\ UNCHANGED <<pass, loop, script, again, before, after, timeout, ticks, bis, half>>
    /\ UNCHANGED makeVars
    /\ UNCHANGED applyVars

NextSweep == SemanticBegin \/ SemanticIter \/ SemanticEnd \/ OverlapIter \/ OverlapEnd

SpecSweep == InitSweep /\ [][NextSweep]_vars

(***************************************************************************)
(* diffCleanupEfficiency one iteration of its loop at a time.              *)
(***************************************************************************)
\* the longest script enumerated
EffOps == 6

\* edits of one byte and equalities of one to diffEditCost bytes
EffRecords ==
    {Diff(OpInsert, <<75>>), Diff(OpDelete, <<75>>)}
    \cup {Diff(OpCopy, [k \in 1..n |-> 97]) : n \in 1..diffEditCost}

EffScripts == UNION {[1..j -> EffRecords] : j \in 0..EffOps}

\* the scripts of TestDiffCleanupEfficiency
EfficiencyNoElimination ==
    <<Diff(OpDelete, <<97, 98>>),
      Diff(OpInsert, <<49, 50>>),
      Diff(OpCopy, <<119, 120, 121, 122>>),
      Diff(OpDelete, <<99, 100>>),
      Diff(OpInsert, <<51, 52>>)>>

FourEditElimination ==
    <<Diff(OpDelete, <<97, 98>>),
      Diff(OpInsert, <<49, 50>>),
      Diff(OpCopy, <<120, 121, 122>>),
      Diff(OpDelete, <<99, 100>>),
      Diff(OpInsert, <<51, 52>>)>>

ThreeEditElimination ==
    <<Diff(OpInsert, <<49, 50>>),
      Diff(OpCopy, <<120>>),
      Diff(OpDelete, <<99, 100>>),
      Diff(OpInsert, <<51, 52>>)>>

BackpassElimination ==
    <<Diff(OpDelete, <<97, 98>>),
      Diff(OpInsert, <<49, 50>>),
      Diff(OpCopy, <<120, 121>>),
      Diff(OpInsert, <<51, 52>>),
      Diff(OpCopy, <<122>>),
      Diff(OpDelete, <<99, 100>>),
      Diff(OpInsert, <<53, 54>>)>>

EfficiencyTests ==
    {EfficiencyNoElimination, FourEditElimination, ThreeEditElimination, BackpassElimination}

InitEff == ScriptIn(EffScripts \cup EfficiencyTests)

EfficiencyBegin ==
    /\ pc = "script"
    /\ pc' = "eff"
    /\ pass' = "efficiency"
    /\ loop' = [diffs |-> script, equalities |-> <<>>, lastequality |-> <<>>, pointer |-> 0,
                preIns |-> FALSE, preDel |-> FALSE, postIns |-> FALSE, postDel |-> FALSE,
                changes |-> FALSE]
    /\ LoopFrame

EfficiencyIter ==
    /\ pc = "eff"
    /\ loop.pointer < Len(loop.diffs)
    /\ loop' = [EfficiencyStep(loop) EXCEPT !.pointer = @ + 1]
    /\ UNCHANGED <<pc, pass>>
    /\ LoopFrame

EfficiencyEnd ==
    /\ pc = "eff"
    /\ loop.pointer >= Len(loop.diffs)
    /\ pc' = "cleaned"
    /\ cleaned' = EfficiencyNormalize(loop)
    /\ UNCHANGED <<pass, loop, script, again, before, after, timeout, ticks, bis, half>>
    /\ UNCHANGED makeVars
    /\ UNCHANGED applyVars

NextEff == EfficiencyBegin \/ EfficiencyIter \/ EfficiencyEnd

SpecEff == InitEff /\ [][NextEff]_vars

(***************************************************************************)
(* The streaming binary codec.                                             *)
(***************************************************************************)
MakePatchTimeout ==
    /\ pc = "init"
    /\ pc' = "made"
    /\ diffs' = diffMain(before, after, timeout, ticks)
    /\ written' = ChooseDiffs(diffs', after)
    /\ patch' = WritePatch(written', after)
    /\ UNCHANGED <<before, after, timeout, ticks, noCRCMake>>
    /\ UNCHANGED applyVars
    /\ UNCHANGED cleanVars
    /\ UNCHANGED <<bis, half, loop>>

\* ApplyPatch is called with the source and the patch, either as made or
\* after one byte of the source changed or one byte was appended to the patch
ApplyPatchBegin ==
    /\ pc = "made"
    /\ pc' = "apply"
    /\ \/ tamper' = "none" /\ src' = before /\ ppatch' = patch
       \/ tamper' = "corrupt" /\ src' \in Corruptions(before) /\ ppatch' = patch
       \/ tamper' = "extra" /\ src' = before /\ \E x \in ExtraData : ppatch' = patch \o x
    /\ ppos' = 0 /\ spos' = 0 /\ out' = <<>> /\ crcRead' = FALSE
    /\ err' = "nil" /\ nrec' = 0
    /\ UNCHANGED <<before, after, timeout, ticks, noCRCApply, ret>>
    /\ UNCHANGED makeVars
    /\ UNCHANGED cleanVars
    /\ UNCHANGED <<bis, half, loop>>

\* extraData as it would be without the test
extraDataNever(crcWasRead) == FALSE

\* the test made of every byte read at the head of the loop: a byte after the
\* checksum record is extra data
extraData(crcWasRead) == crcWasRead

\* one iteration of ApplyPatch's loop, as the decoder state it leaves:
\* done is TRUE when the iteration returns
ApplyPatchIter(d) ==
    IF d.ppos >= Len(ppatch)
    THEN [d EXCEPT !.done = TRUE]
    ELSE
      LET op == At(ppatch, d.ppos)
          p1 == d.ppos + 1
          v == IF op # OpCRC THEN ReadUvarint(ppatch, p1)
               ELSE [err |-> "nil", pos |-> p1, tl |-> UvarintOf(<<>>)]
          fail(e, pp) == [d EXCEPT !.ppos = pp, !.err = e, !.done = TRUE]
      IN IF extraData(d.crcRead) THEN fail("ErrExtraData", p1)
         ELSE IF v.err # "nil" THEN fail(v.err, v.pos)
         ELSE IF op = OpCopy THEN
              LET c == CopyN(src, d.spos, v.tl)
              IN [d EXCEPT !.ppos = v.pos, !.spos = c.pos, !.out = @ \o c.bytes,
                           !.nrec = @ + 1, !.err = c.err, !.done = c.err # "nil"]
         ELSE IF op = OpInsert THEN
              LET c == CopyN(ppatch, v.pos, v.tl)
              IN [d EXCEPT !.ppos = c.pos, !.out = @ \o c.bytes,
                           !.nrec = @ + 1, !.err = c.err, !.done = c.err # "nil"]
         ELSE IF op = OpDelete THEN
              LET c == Discard(src, d.spos, v.tl)
              IN [d EXCEPT !.ppos = v.pos, !.spos = c.pos,
                           !.nrec = @ + 1, !.err = c.err, !.done = c.err # "nil"]
         ELSE IF op = OpCRC THEN
              IF Len(ppatch) - v.pos < 4
              THEN fail(IF Len(ppatch) = v.pos THEN "EOF" ELSE "ErrUnexpectedEOF", Len(ppatch))
              ELSE IF Slice(ppatch, v.pos, v.pos + 4) # crcSum(ChecksumIEEE(d.out))
                   THEN fail("ErrCRC", v.pos + 4)
                   ELSE [d EXCEPT !.ppos = v.pos + 4, !.crcRead = TRUE, !.nrec = @ + 1]
         ELSE fail("unexpected operation byte", v.pos)

ApplyPatchStep ==
    /\ pc = "apply"
    /\ \E d \in {ApplyPatchIter([ppos |-> ppos, spos |-> spos, out |-> out,
                                 crcRead |-> crcRead, err |-> err, nrec |-> nrec,
                                 done |-> FALSE])} :
          /\ ppos' = d.ppos /\ spos' = d.spos /\ out' = d.out
          /\ crcRead' = d.crcRead /\ err' = d.err /\ nrec' = d.nrec
          /\ pc' = IF d.done THEN "done" ELSE "apply"
    /\ UNCHANGED <<before, after, timeout, ticks, tamper, src, ppatch, noCRCApply, ret>>
    /\ UNCHANGED makeVars
    /\ UNCHANGED cleanVars
    /\ UNCHANGED <<bis, half, loop>>

NextBin == MakePatchTimeout \/ ApplyPatchBegin \/ ApplyPatchStep

SpecBin == Init /\ [][NextBin]_vars

(***************************************************************************)
(* The example of the README, made and applied by the streaming codec.     *)
(***************************************************************************)
\* "The quick brown fox jumped over the lazy dog"
ExampleBefore ==
    <<84, 104, 101, 32, 113, 117, 105, 99, 107, 32, 98, 114,
      111, 119, 110, 32, 102, 111, 120, 32, 106, 117, 109, 112,
      101, 100, 32, 111, 118, 101, 114, 32, 116, 104, 101, 32,
      108, 97, 122, 121, 32, 100, 111, 103>>

\* "The quick brown fox leaped over the lazy dog."
ExampleAfter ==
    <<84, 104, 101, 32, 113, 117, 105, 99, 107, 32, 98, 114,
      111, 119, 110, 32, 102, 111, 120, 32, 108, 101, 97, 112,
      101, 100, 32, 111, 118, 101, 114, 32, 116, 104, 101, 32,
      108, 97, 122, 121, 32, 100, 111, 103, 46>>

\* the patch of the README, byte for byte
ExamplePatch ==
    <<67, 20, 68, 3, 73, 3, 108, 101, 97, 67, 21, 73,
      1, 46, 75, 150, 246, 183, 108>>

\* the state before any call with the texts b and a
StartWith(b, a) ==
    /\ pc = "init"
    /\ before = b
    /\ after = a
    /\ timeout \in {0, DefaultTimeout}
    /\ ticks \in 0..MaxTicks
    /\ (timeout = 0 => ticks = 0)
    /\ noCRCMake = FALSE
    /\ diffs = <<>> /\ written = <<>> /\ patch = <<>>
    /\ tamper = "none" /\ src = <<>> /\ ppatch = <<>> /\ noCRCApply = FALSE
    /\ ppos = 0 /\ spos = 0 /\ out = <<>> /\ crcRead = FALSE
    /\ err = "nil" /\ ret = <<>> /\ nrec = 0
    /\ pass = "none" /\ script = <<>> /\ cleaned = <<>> /\ again = <<>>
    /\ bis = <<>> /\ half = <<>> /\ loop = <<>>

InitExample == StartWith(ExampleBefore, ExampleAfter)

SpecExample == InitExample /\ [][NextBin]_vars

(***************************************************************************)
(* The streaming codec on the short texts and on texts long enough for     *)
(* lengths of more than one varint byte.                                   *)
(***************************************************************************)
\* LongLen bytes b
LongText(b) == SubSeq([i \in 1..LongLen |-> b], 1, LongLen)

\* a long insertion, a long copy, and a long deletion before a long copy
LongPairs ==
    {<< <<>>, LongText(97) >>,
     << LongText(97), LongText(97) >>,
     << LongText(97) \o LongText(75), LongText(75) >>}

InitWire == Init \/ \E p \in LongPairs : StartWith(p[1], p[2])

SpecWire == InitWire /\ [][NextBin]_vars

(***************************************************************************)
(* diffBisect on its own.  diffCompute calls it with two texts of two      *)
(* bytes or more, neither containing the other.                            *)
(***************************************************************************)
\* length of the long texts without a common byte
BisectLen == 17

BisectText(b) == SubSeq([i \in 1..BisectLen |-> b], 1, BisectLen)

\* texts the search walks for more than 16 iterations: without a common
\* byte, and with one common byte at the end
BisectPairs ==
    {<<BisectText(97), BisectText(75)>>,
     <<BisectText(97) \o <<75>>, BisectText(75) \o <<97, 75>>>>}

InitBisect == Init \/ \E p \in BisectPairs : StartWith(p[1], p[2])

\* bis is the state diffBisect's loop was left in
Bisect ==
    /\ pc = "init"
    /\ Len(before) >= 2 /\ Len(after) >= 2
    /\ bytesIndex(before, after) = -1 /\ bytesIndex(after, before) = -1
    /\ pc' = "bisected"
    /\ bis' = BisectSearch(before, after, IF timeout > 0 THEN ticks ELSE NoDeadline)
    /\ diffs' = BisectResult(before, after, bis').diffs
    /\ UNCHANGED <<before, after, timeout, ticks, noCRCMake, written, patch, half, loop>>
    /\ UNCHANGED applyVars
    /\ UNCHANGED cleanVars

NextBisect == Bisect

SpecBisect == InitBisect /\ [][NextBisect]_vars

\* diffBisect as diffMainBytes reaches it, in its two steps: the search
\* for the overlap, then the split at it.  diffMainBytes has trimmed the
\* common prefix and suffix and diffCompute has handled the texts under two
\* bytes and those of which one contains the other.
BisectReached(text1, text2) ==
    /\ Len(text1) >= 2 /\ Len(text2) >= 2
    /\ commonPrefixLength(text1, text2) = 0 /\ commonSuffixLength(text1, text2) = 0
    /\ bytesIndex(text1, text2) = -1 /\ bytesIndex(text2, text1) = -1

Search ==
    /\ pc = "init"
    /\ BisectReached(before, after)
    /\ pc' = "searched"
    /\ bis' = BisectSearch(before, after, IF timeout > 0 THEN ticks ELSE NoDeadline)
    /\ UNCHANGED <<before, after, timeout, ticks, half, loop>>
    /\ UNCHANGED makeVars
    /\ UNCHANGED applyVars
    /\ UNCHANGED cleanVars

SearchSplit ==
    /\ pc = "searched"
    /\ pc' = "bisected"
    /\ \E r \in {BisectResult(before, after, bis)} : diffs' = r.diffs
    /\ UNCHANGED <<before, after, timeout, ticks, noCRCMake, written, patch, bis, half, loop>>
    /\ UNCHANGED applyVars
    /\ UNCHANGED cleanVars

NextSearch == Search \/ SearchSplit

SpecSearch == InitBisect /\ [][NextSearch]_vars

(***************************************************************************)
(* diffMain on texts whose script is joined from the scripts of two parts  *)
(* (dmp.go 121-125, 260), one of them found through a half-match.          *)
(***************************************************************************)
JoinPairs ==
    {<<<<97, 97, 97, 97, 75, 97, 75>>, <<75, 75, 75, 75, 75, 97, 97, 97, 97>>>>,
     <<<<97, 75, 75, 75, 97, 75, 75>>, <<75, 97, 97, 97, 75, 75, 75, 75, 97>>>>}

InitJoin == Init \/ \E p \in JoinPairs : StartWith(p[1], p[2])

NextJoin == DiffMain

SpecJoin == InitJoin /\ [][NextJoin]_vars

(***************************************************************************)
(* diffMainBytes down to the branch of diffCompute, and the search of      *)
(* diffBisect when that is the branch.                                     *)
(***************************************************************************)
\* the middle block m computed up to the search
Computed(m, deadline, case) ==
    /\ loop' = [text1 |-> m[1], text2 |-> m[2], case |-> case]
    /\ bis' = IF case = "bisect" THEN BisectSearch(m[1], m[2], deadline) ELSE <<>>

ComputeMiddle(m, deadline) == Computed(m, deadline, ComputeCase(m[1], m[2], deadline))

Compute ==
    /\ pc = "init"
    /\ before # after
    /\ pc' = "computed"
    /\ ComputeMiddle(Middle(before, after, commonPrefixLength(before, after)),
                     IF timeout > 0 THEN ticks ELSE NoDeadline)
    /\ UNCHANGED <<before, after, timeout, ticks, half>>
    /\ UNCHANGED makeVars
    /\ UNCHANGED applyVars
    /\ UNCHANGED cleanVars

NextReach == Compute

SpecReach == InitBisect /\ [][NextReach]_vars

(***************************************************************************)
(* The streaming ApplyPatch on a patch whose first record declares more    *)
(* bytes than the stream it reads from holds.                              *)
(***************************************************************************)
\* the varints of 2^63, the least value int64(tl) turns negative, and of
\* 2^64 - 1
Varint63 == [i \in 1..MaxVarintLen64 |-> IF i < MaxVarintLen64 THEN 128 ELSE 1]
VarintMax == [i \in 1..MaxVarintLen64 |-> IF i < MaxVarintLen64 THEN 255 ELSE 1]

\* the varint of 2^28
Varint28 == <<128, 128, 128, 128, 1>>

\* declared lengths above rem, the bytes left in the stream: one more, two
\* more, 2^28, 2^63 and 2^64 - 1
Overlong(rem) == {PutUvarint(rem + 1), PutUvarint(rem + 2), Varint28, Varint63, VarintMax}

\* the checksum record of an empty output, which ends every patch here
EmptyCRC == <<OpCRC>> \o crcSum(ChecksumIEEE(<<>>))

\* a Copy or Delete longer than the source s, or an Insert longer than the
\* rest of the patch, followed by the checksum record
OverlongPatches(s) ==
    {<<op>> \o l \o EmptyCRC : op \in {OpCopy, OpDelete}, l \in Overlong(Len(s))}
    \cup {<<OpInsert>> \o l \o EmptyCRC : l \in Overlong(Len(EmptyCRC))}

ApplyPatchOverlong ==
    /\ pc = "made"
    /\ pc' = "apply"
    /\ tamper' = "overlong" /\ src' = before /\ ppatch' \in OverlongPatches(before)
    /\ ppos' = 0 /\ spos' = 0 /\ out' = <<>> /\ crcRead' = FALSE
    /\ err' = "nil" /\ nrec' = 0
    /\ UNCHANGED <<before, after, timeout, ticks, noCRCApply, ret>>
    /\ UNCHANGED makeVars
    /\ UNCHANGED cleanVars
    /\ UNCHANGED <<bis, half, loop>>

NextOver == MakePatchTimeout \/ ApplyPatchOverlong \/ ApplyPatchStep

SpecOver == Init /\ [][NextOver]_vars

(***************************************************************************)
(* diffHalfMatch on its own, called as diffCompute calls it: with          *)
(* unlimited time when there is no deadline.                               *)
(***************************************************************************)
\* the texts of MaxLen bytes
HalfTexts == {t \in Strs(MaxLen) : Len(t) = MaxLen}

\* texts of twice MaxLen bytes that share one half
HalfPairs == {<<x \o y, y \o z>> : x \in HalfTexts, y \in HalfTexts, z \in HalfTexts}

InitHalf == Start(MaxLenSize) \/ \E p \in HalfPairs : StartWith(p[1], p[2])

\* half is what diffHalfMatch returned
HalfMatch ==
    /\ pc = "init"
    /\ pc' = "halved"
    /\ half' = diffHalfMatch(before, after, timeout = 0)
    /\ UNCHANGED <<before, after, timeout, ticks, bis, loop>>
    /\ UNCHANGED makeVars
    /\ UNCHANGED applyVars
    /\ UNCHANGED cleanVars

NextHalf == HalfMatch

SpecHalf == InitHalf /\ [][NextHalf]_vars

(***************************************************************************)
(* The hex-text codec of lightpatch.go: MakePatch and ApplyPatch taking    *)
(* FuncOption.  Its diff comes from diffmatchpatch.DiffMain with the       *)
(* library's default (positive) timeout, the algorithm dmp.go is a byte    *)
(* port of; the texts here are ASCII, where the two agree.                 *)
(***************************************************************************)
hexChar(d) == IF d < 10 THEN 48 + d ELSE 87 + d

\* fmt.Sprintf("%x", n) of an int
RECURSIVE FormatHex(_)
FormatHex(n) == IF n < 16 THEN <<hexChar(n)>> ELSE FormatHex(n \div 16) \o <<hexChar(n % 16)>>

\* the k-th hex digit of a word, k = 0 the least significant
WordNibble(w, k) == w[4*k + 1] + 2 * w[4*k + 2] + 4 * w[4*k + 3] + 8 * w[4*k + 4]

RECURSIVE StripZeros(_)
StripZeros(nibs) ==
    IF Len(nibs) > 1 /\ Head(nibs) = 0 THEN StripZeros(Tail(nibs)) ELSE nibs

\* fmt.Sprintf("%x", crc) of a uint32
FormatHexWord(w) ==
    LET nibs == StripZeros([i \in 1..8 |-> WordNibble(w, 8 - i)])
    IN SubSeq([i \in 1..Len(nibs) |-> hexChar(nibs[i])], 1, Len(nibs))

\* int(math.Ceil(math.Log(float64(n)) / math.Log(16))) for n >= 1
RECURSIVE CeilLog16(_)
CeilLog16(n) == IF n <= 1 THEN 0 ELSE 1 + CeilLog16((n + 15) \div 16)

RECURSIVE textEncodedLen(_)
textEncodedLen(ds) ==
    IF ds = <<>> THEN 0
    ELSE CeilLog16(Len(Head(ds).Text)) + 1
         + (IF Head(ds).Type = OpInsert THEN Len(Head(ds).Text) ELSE 0)
         + textEncodedLen(Tail(ds))

\* the script MakePatch writes
ChooseTextDiffs(ds, afterBytes) ==
    IF Len(afterBytes) < textEncodedLen(ds) THEN naiveDiff(afterBytes) ELSE ds

RECURSIVE WriteTextDiffs(_)
WriteTextDiffs(ds) ==
    IF ds = <<>> THEN <<>>
    ELSE FormatHex(Len(Head(ds).Text)) \o <<Head(ds).Type>>
         \o (IF Head(ds).Type = OpInsert THEN Head(ds).Text ELSE <<>>)
         \o WriteTextDiffs(Tail(ds))

WriteTextPatch(ds, afterBytes, noCRC) ==
    <<Version>> \o WriteTextDiffs(ds)
    \o FormatHexWord(IF noCRC THEN ZeroCRC ELSE ChecksumIEEE(afterBytes)) \o <<OpCRC>>

IsHexDigit(c) == (c >= 48 /\ c <= 57) \/ (c >= 97 /\ c <= 102)
hexVal(c) == IF c <= 57 THEN c - 48 ELSE c - 87
IsOp(c) == c \in {OpCopy, OpInsert, OpDelete, OpCRC}

RECURSIVE NibblesValue(_)
NibblesValue(nibs) ==
    IF nibs = <<>> THEN 0 ELSE 16 * NibblesValue(Upto(nibs, Len(nibs) - 1)) + nibs[Len(nibs)]

\* strconv.ParseInt(s, 16, 64) of at most 9 hex digits, as the count
\* int(l) and as the word uint32(int(l))
ParseHex(s) ==
    LET nibs == StripZeros([i \in 1..Len(s) |-> hexVal(s[i])])
        low == [i \in 1..8 |-> IF i <= Len(s) THEN hexVal(s[Len(s) + 1 - i]) ELSE 0]
    IN [tl |-> [big |-> Len(nibs) > 7, neg |-> FALSE,
                n |-> IF Len(nibs) > 7 THEN 0 ELSE NibblesValue(nibs)],
        word |-> SubSeq([i \in 1..32 |-> (low[((i - 1) \div 4) + 1] \div Pow2((i - 1) % 4)) % 2],
                        1, 32)]

RECURSIVE readOpLoop(_, _, _)
readOpLoop(p, pos, s) ==
    IF pos >= Len(p) THEN [err |-> "EOF", pos |-> pos, op |-> 0, s |-> s]
    ELSE LET c == At(p, pos) IN
         IF IsHexDigit(c)
         THEN IF Len(s) + 1 > 9
              THEN [err |-> "expected operation code", pos |-> pos + 1, op |-> 0, s |-> s]
              ELSE readOpLoop(p, pos + 1, s \o <<c>>)
         ELSE IF IsOp(c)
         THEN IF Len(s) = 0
              THEN [err |-> "missing operation length", pos |-> pos + 1, op |-> 0, s |-> s]
              ELSE [err |-> "nil", pos |-> pos + 1, op |-> c, s |-> s]
         ELSE [err |-> "error decoding operation", pos |-> pos + 1, op |-> 0, s |-> s]

readOp(p, pos) == readOpLoop(p, pos, <<>>)

\* readOpError as it would be had the end of the patch ended the loop quietly
readOpErrorEndsQuietly(e) == IF e = "EOF" THEN "nil" ELSE e

\* the error ApplyPatch returns when readOp failed: the end of the patch in
\* place of a record is an unexpected end
readOpError(e) == IF e = "EOF" THEN "ErrUnexpectedEOF" ELSE e

\* crcMismatch as it would be had it ignored WithNoCRC
crcMismatchIgnoresOption(noCRC, crc, all) == crc # ZeroCRC /\ ChecksumIEEE(all) # crc

\* crcMismatch as it would be had it verified a stored zero like any other value
crcMismatchChecksZero(noCRC, crc, all) == ~noCRC /\ ChecksumIEEE(all) # crc

\* the checksum record's test: verification on, a nonzero stored value, and
\* a different checksum of the output
crcMismatch(noCRC, crc, all) == ~noCRC /\ crc # ZeroCRC /\ ChecksumIEEE(all) # crc

\* versionOK as it would be had any first byte been accepted
versionAny(ver) == TRUE

\* the version byte's test
versionOK(ver) == ver = Version

\* the checksum record as it would be had a mismatch returned the output
\* along with the error
checkCRCKeepsOutput(noCRC, crc, d) ==
    IF crcMismatch(noCRC, crc, d.out)
    THEN [d EXCEPT !.err = "ErrCRC", !.ret = <<d.out>>]
    ELSE [d EXCEPT !.ret = <<d.out>>]

\* the checksum record: a mismatch returns nil and ErrCRC, anything else
\* returns the output and no error
checkCRC(noCRC, crc, d) ==
    IF crcMismatch(noCRC, crc, d.out)
    THEN [d EXCEPT !.err = "ErrCRC"]
    ELSE [d EXCEPT !.ret = <<d.out>>]

\* ApplyPatch's loop over the records, from decoder state d to the state at
\* its return; ret is <<>> for a nil result and <<all>> for the bytes
RECURSIVE ApplyLoop(_, _, _, _)
ApplyLoop(beforeByte, patchByte, noCRC, d) ==
    LET r == readOp(patchByte, d.ppos)
        v == ParseHex(r.s)
        fail(e, pp) == [d EXCEPT !.ppos = pp, !.err = e]
    IN IF r.err # "nil" THEN fail(readOpError(r.err), r.pos)
       ELSE IF r.op = OpCopy THEN
            LET c == CopyN(beforeByte, d.spos, v.tl)
                d1 == [d EXCEPT !.ppos = r.pos, !.spos = c.pos, !.out = @ \o c.bytes,
                                !.nrec = @ + 1, !.err = c.err]
            IN IF c.err # "nil" THEN d1 ELSE ApplyLoop(beforeByte, patchByte, noCRC, d1)
       ELSE IF r.op = OpInsert THEN
            LET c == CopyN(patchByte, r.pos, v.tl)
                d1 == [d EXCEPT !.ppos = c.pos, !.out = @ \o c.bytes,
                                !.nrec = @ + 1, !.err = c.err]
            IN IF c.err # "nil" THEN d1 ELSE ApplyLoop(beforeByte, patchByte, noCRC, d1)
       ELSE IF r.op = OpDelete THEN
            LET c == Discard(beforeByte, d.spos, v.tl)
                d1 == [d EXCEPT !.ppos = r.pos, !.spos = c.pos,
                                !.nrec = @ + 1, !.err = c.err]
            IN IF c.err # "nil" THEN d1 ELSE ApplyLoop(beforeByte, patchByte, noCRC, d1)
       ELSE checkCRC(noCRC, v.word, [d EXCEPT !.ppos = r.pos, !.nrec = @ + 1])

ApplyPatchRun(beforeByte, patchByte, noCRC) ==
    LET d0 == [ppos |-> 0, spos |-> 0, out |-> <<>>, err |-> "nil", nrec |-> 0, ret |-> <<>>]
    IN IF Len(patchByte) = 0 THEN [d0 EXCEPT !.err = "EOF"]
       ELSE IF ~versionOK(patchByte[1]) THEN [d0 EXCEPT !.ppos = 1, !.err = "unknown version"]
       ELSE ApplyLoop(beforeByte, patchByte, noCRC, [d0 EXCEPT !.ppos = 1])

MakePatch ==
    /\ pc = "init"
    /\ pc' = "made"
    /\ noCRCMake' \in BOOLEAN
    /\ diffs' = diffMain(before, after, timeout, ticks)
    /\ written' = ChooseTextDiffs(diffs', after)
    /\ patch' = WriteTextPatch(written', after, noCRCMake')
    /\ UNCHANGED <<before, after, timeout, ticks>>
    /\ UNCHANGED applyVars
    /\ UNCHANGED cleanVars
    /\ UNCHANGED <<bis, half, loop>>

\* first bytes a foreign or damaged patch may start with
BadVersions == {66, 50}

\* ApplyPatch is called with the source and the patch as made, or with one
\* byte of the source changed, a byte appended to the patch, a proper prefix
\* of the patch, or a patch whose version byte is missing or replaced
ApplyPatch ==
    /\ pc = "made"
    /\ pc' = "done"
    /\ noCRCApply' \in BOOLEAN
    /\ \/ tamper' = "none" /\ src' = before /\ ppatch' = patch
       \/ tamper' = "corrupt" /\ src' \in Corruptions(before) /\ ppatch' = patch
       \/ tamper' = "extra" /\ src' = before /\ \E x \in ExtraText : ppatch' = patch \o x
       \/ tamper' = "trunc" /\ src' = before /\ \E k \in 0..(Len(patch) - 1) : ppatch' = Upto(patch, k)
       \/ tamper' = "version" /\ src' = before
          /\ \/ ppatch' = Tail(patch)
             \/ \E b \in BadVersions : ppatch' = <<b>> \o Tail(patch)
    /\ \E d \in {ApplyPatchRun(src', ppatch', noCRCApply')} :
          /\ ppos' = d.ppos /\ spos' = d.spos /\ out' = d.out
          /\ err' = d.err /\ nrec' = d.nrec /\ ret' = d.ret
    /\ UNCHANGED <<before, after, timeout, ticks, crcRead>>
    /\ UNCHANGED makeVars
    /\ UNCHANGED cleanVars
    /\ UNCHANGED <<bis, half, loop>>

InitHex == Init /\ timeout = DefaultTimeout

NextHex == MakePatch \/ ApplyPatch

SpecHex == InitHex /\ [][NextHex]_vars

\* ApplyPatch called with a patch one byte of which, after the version byte,
\* was replaced
ApplyPatchGarbled ==
    /\ pc = "made"
    /\ pc' = "done"
    /\ noCRCApply' \in BOOLEAN
    /\ tamper' = "garble" /\ src' = before /\ ppatch' \in Garbles(patch)
    /\ \E d \in {ApplyPatchRun(src', ppatch', noCRCApply')} :
          /\ ppos' = d.ppos /\ spos' = d.spos /\ out' = d.out
          /\ err' = d.err /\ nrec' = d.nrec /\ ret' = d.ret
    /\ UNCHANGED <<before, after, timeout, ticks, crcRead>>
    /\ UNCHANGED makeVars
    /\ UNCHANGED cleanVars
    /\ UNCHANGED <<bis, half, loop>>

NextGarble == MakePatch \/ ApplyPatch \/ ApplyPatchGarbled

SpecGarble == InitHex /\ [][NextGarble]_vars

(***************************************************************************)
(* MakePatch of the hex-text codec on its own, over longer texts.          *)
(***************************************************************************)
InitSize == Start(MaxLenSize) /\ timeout = DefaultTimeout

NextSize == MakePatch

SpecSize == InitSize /\ [][NextSize]_vars

(***************************************************************************)
(* Properties.                                                             *)
(***************************************************************************)

\* C1 (SpecBin): applying to before the patch that MakePatchTimeout produced
\* for (before, after), under any time budget, writes exactly after and
\* returns no error.
C1_RoundTrip ==
    (pc = "done" /\ tamper = "none") => (out = after /\ err = "nil" /\ crcRead)

\* a computed script that copies and deletes, applied to the end
C1_Witness ==
    /\ pc = "done" /\ tamper = "none"
    /\ Len(written) = 2 /\ written[1].Type = OpCopy /\ written[2].Type = OpDelete
    /\ out = after /\ err = "nil" /\ nrec = 3

\* C2 (SpecDiff): for every before, after and timeout, a deadline already
\* passed when the search starts included, the script diffMain returns is a
\* valid edit script: its Copy and Delete payloads concatenated give before,
\* its Copy and Insert payloads concatenated give after.
C2_ValidScript ==
    pc = "diffed" => (Text1Of(diffs) = before /\ Text2Of(diffs) = after)

\* the bisection of "aK" against "Ka" given up at its first clock read
C2_Witness ==
    /\ pc = "diffed" /\ timeout > 0 /\ ticks = 0
    /\ before = <<97, 75>> /\ after = <<75, 97>>
    /\ diffs = <<Diff(OpDelete, before), Diff(OpInsert, after)>>

\* for each source byte the written script consumes, whether a Copy record
\* reads it
RECURSIVE CopyMask(_)
CopyMask(ds) ==
    IF ds = <<>> THEN <<>>
    ELSE (IF Head(ds).Type = OpInsert THEN <<>>
          ELSE [i \in 1..Len(Head(ds).Text) |-> Head(ds).Type = OpCopy])
         \o CopyMask(Tail(ds))

\* the byte of the source that was changed is one a Copy record reads
ChangedInCopy ==
    \E i \in 1..Len(CopyMask(written)) : CopyMask(written)[i] /\ src[i] # before[i]

\* C3 as stated (SpecHex): a patch made with a checksum, applied after any one
\* byte of before was changed, fails with ErrCRC when verification is enabled
\* and returns without error when it is disabled.
C3_AnyChangeDetected ==
    (pc = "done" /\ tamper = "corrupt" /\ ~noCRCMake /\ ChecksumIEEE(after) # ZeroCRC)
        => (IF noCRCApply THEN err = "nil" ELSE err = "ErrCRC")

\* C3 as the code has it (SpecHex): a patch made with a checksum, applied
\* after one byte of before was changed, fails with ErrCRC under verification
\* exactly when a Copy record of the patch reads the changed byte (and the
\* stored checksum is not zero); when no Copy record reads it the application
\* succeeds and returns after.  With verification disabled it returns an
\* output and no error.
C3_ChangeInCopyDetected ==
    (pc = "done" /\ tamper = "corrupt" /\ ~noCRCMake)
        => IF noCRCApply THEN err = "nil" /\ ret = <<out>>
           ELSE IF ChangedInCopy /\ ChecksumIEEE(after) # ZeroCRC
                THEN err = "ErrCRC" /\ ret = <<>> /\ out # after
                ELSE err = "nil" /\ ret = <<after>>

\* a changed byte under a Copy record, caught by the checksum
C3_Witness ==
    /\ pc = "done" /\ tamper = "corrupt" /\ ~noCRCMake /\ ~noCRCApply
    /\ ChangedInCopy /\ out # after /\ err = "ErrCRC"

\* the checksum value MakePatch stored in the patch
StoredCRC == IF noCRCMake THEN ZeroCRC ELSE ChecksumIEEE(after)

\* C4 (SpecHex): ApplyPatch returns ErrCRC if and only if it reached the
\* checksum record with verification enabled, a nonzero stored checksum and
\* an output whose CRC-32 differs from it; a patch made with WithNoCRC never
\* yields ErrCRC, even against a changed source.
C4_ErrCRCIff ==
    pc = "done" =>
        /\ err = "ErrCRC" <=>
              /\ tamper \in {"none", "corrupt", "extra"}
              /\ ~noCRCApply
              /\ StoredCRC # ZeroCRC
              /\ ChecksumIEEE(out) # StoredCRC
        /\ noCRCMake => err # "ErrCRC"

\* a patch made with WithNoCRC applied, with verification, to a changed
\* source: a wrong output and no ErrCRC
C4_Witness ==
    /\ pc = "done" /\ tamper = "corrupt" /\ noCRCMake /\ ~noCRCApply
    /\ out # after /\ ChecksumIEEE(out) # ZeroCRC
    /\ err = "nil" /\ ret = <<out>>

\* C5 (SpecBin): once the checksum record has been read it stays the last
\* record executed, the output stays what it was, and ApplyPatch returns
\* ErrExtraData when any byte follows it in the patch stream (nil when none
\* does).
C5_ChecksumTerminal ==
    crcRead =>
        /\ nrec = Len(written) + 1
        /\ out = after
        /\ pc = "done" =>
              err = (IF Len(ppatch) > Len(patch) THEN "ErrExtraData" ELSE "nil")

\* an Insert record after the checksum record, refused and not executed
C5_Witness ==
    /\ pc = "done" /\ tamper = "extra" /\ crcRead
    /\ Len(ppatch) = Len(patch) + 3
    /\ err = "ErrExtraData" /\ out = after /\ ppos = Len(patch) + 1

\* C6 as stated (SpecHex): a patch with any byte after its checksum record is
\* rejected with an error, whether or not verification is enabled.
C6_TrailingRejected ==
    (pc = "done" /\ tamper = "extra") => err # "nil"

\* C7 (SpecHex): a patch that is empty or whose first byte is not the version
\* byte is rejected with an error and a nil output, with no record read and
\* no source byte consumed.
C7_VersionRejected ==
    (pc = "done" /\ (ppatch = <<>> \/ ppatch[1] # Version))
        => /\ err # "nil" /\ ret = <<>>
           /\ nrec = 0 /\ spos = 0 /\ out = <<>> /\ ppos <= 1

\* a whole patch whose version byte was replaced by 'B'
C7_Witness ==
    /\ pc = "done" /\ tamper = "version"
    /\ Len(ppatch) = Len(patch) /\ ppatch[1] = 66 /\ Len(written) >= 2
    /\ err = "unknown version" /\ ret = <<>> /\ nrec = 0

\* C8 (SpecHex): ApplyPatch returns an error, and a nil output, for every
\* proper prefix of a patch MakePatch produced.
C8_TruncationRejected ==
    (pc = "done" /\ tamper = "trunc") => (err # "nil" /\ ret = <<>>)

\* a patch cut inside its checksum record, after all its other records
C8_Witness ==
    /\ pc = "done" /\ tamper = "trunc"
    /\ Len(ppatch) < Len(patch) /\ nrec = Len(written) /\ nrec >= 2
    /\ err = "ErrUnexpectedEOF" /\ ret = <<>>

\* C9 as stated (SpecSize): the patch MakePatch returns is never longer than
\* the naive patch for the same target: the version byte, one Insert record
\* holding all of after, the checksum record.
C9_NeverLongerThanNaive ==
    pc = "made" => Len(patch) <= Len(WriteTextPatch(naiveDiff(after), after, noCRCMake))

\* C10 as stated (SpecBin): whenever the naive script encodes no longer than
\* the computed script, ties included, the naive script is the one written.
C10_NaiveOnTie ==
    pc # "init" =>
        (encodedLen(naiveDiff(after)) <= encodedLen(diffs) => written = naiveDiff(after))

\* C10 as the code has it (SpecBin): the naive script is written exactly when
\* it encodes strictly shorter than the computed script; on a tie, or when it
\* is longer, the computed script is written.  The patch begins with the
\* records of the script written.
C10_NaiveOnlyWhenShorter ==
    pc # "init" =>
        /\ encodedLen(naiveDiff(after)) < encodedLen(diffs) => written = naiveDiff(after)
        /\ encodedLen(naiveDiff(after)) >= encodedLen(diffs) => written = diffs
        /\ Upto(patch, Len(WriteDiffs(written))) = WriteDiffs(written)

\* a tie on which the computed script, not the naive one, was written
C10_Witness ==
    /\ pc = "made"
    /\ encodedLen(naiveDiff(after)) = encodedLen(diffs)
    /\ diffs # naiveDiff(after) /\ written = diffs

\* C11 (SpecDiff): for every text x and any timeout, diffMain(x, x) is the
\* script of the one record Copy(x) when x is not empty, and the empty script
\* when x is empty.
C11_Identity ==
    (pc = "diffed" /\ before = after)
        => diffs = (IF before = <<>> THEN <<>> ELSE <<Diff(OpCopy, before)>>)

\* "aK" compared with itself under a deadline that has already passed
C11_Witness ==
    /\ pc = "diffed" /\ before = <<97, 75>> /\ after = before
    /\ timeout > 0 /\ ticks = 0
    /\ diffs = <<Diff(OpCopy, <<97, 75>>)>>

\* no two adjacent records of the script have the same operation
NoAdjacentSame(ds) == \A i \in 1..(Len(ds) - 1) : ds[i].Type # ds[i + 1].Type

\* C12 (SpecClean): in the script diffMain returns, and in the script
\* diffCleanupMerge returns for any script it is called with, no two adjacent
\* records have the same operation.
C12_Canonical ==
    /\ pc = "diffed" => NoAdjacentSame(diffs)
    /\ (pc = "cleaned" /\ pass = "merge") => NoAdjacentSame(cleaned)

\* C13 (SpecClean): each of diffCleanupMerge, diffCleanupSemantic and
\* diffCleanupEfficiency returns a script that describes the transformation
\* the script it was called with describes: the same source text (Copy and
\* Delete payloads) and the same target text (Copy and Insert payloads).
C13_MeaningPreserved ==
    pc = "cleaned" => (/\ Text1Of(cleaned) = Text1Of(script)
                       /\ Text2Of(cleaned) = Text2Of(script))

\* C14 (SpecClean): diffCleanupMerge called with the script it returned
\* returns that script, record for record.
C14_MergeIdempotent ==
    (pc = "recleaned" /\ pass = "merge") => again = cleaned

\* C15 (SpecClean): diffCleanupSemantic called with the script it returned
\* returns that script, and so does diffCleanupEfficiency.
C15_SemanticEfficiencyIdempotent ==
    (pc = "recleaned" /\ pass \in {"semantic", "efficiency"}) => again = cleaned

\* two insertions and two equalities in a row, merged into one of each
C12_Witness ==
    /\ pc = "cleaned" /\ pass = "merge"
    /\ script = <<Diff(OpInsert, <<97>>), Diff(OpInsert, <<75>>),
                  Diff(OpCopy, <<97>>), Diff(OpCopy, <<75>>)>>
    /\ cleaned = <<Diff(OpInsert, <<97, 75>>), Diff(OpCopy, <<97, 75>>)>>

\* an equality no longer than the deletions around it, eliminated by
\* diffCleanupSemantic
C13_Witness ==
    /\ pc = "cleaned" /\ pass = "semantic"
    /\ script = <<Diff(OpDelete, <<75, 75>>), Diff(OpCopy, <<97, 97>>),
                  Diff(OpDelete, <<75, 75>>)>>
    /\ cleaned = <<Diff(OpDelete, <<75, 75, 97, 97, 75, 75>>), Diff(OpInsert, <<97, 97>>)>>

\* an insertion shifted over the equality before it, the two insertions then
\* merged by the second call within diffCleanupMerge; the result is returned
\* again when diffCleanupMerge is called with it
C14_Witness ==
    /\ pc = "recleaned" /\ pass = "merge"
    /\ script = <<Diff(OpInsert, <<75>>), Diff(OpCopy, <<97>>),
                  Diff(OpInsert, <<97>>), Diff(OpCopy, <<75>>)>>
    /\ cleaned = <<Diff(OpInsert, <<75, 97>>), Diff(OpCopy, <<97, 75>>)>>
    /\ again = cleaned

\* the script of the README's example
ExampleScript ==
    <<Diff(OpCopy, Upto(ExampleBefore, 20)),
      Diff(OpDelete, <<106, 117, 109>>),
      Diff(OpInsert, <<108, 101, 97>>),
      Diff(OpCopy, Slice(ExampleBefore, 23, 44)),
      Diff(OpInsert, <<46>>)>>

\* C16 (SpecExample): for before = "The quick brown fox jumped over the lazy
\* dog" and after = "The quick brown fox leaped over the lazy dog." the diff
\* is Copy(20 bytes), Delete("jum"), Insert("lea"), Copy(21 bytes),
\* Insert("."); it is the script written, the patch is the one the README
\* shows, and applied to before the patch gives exactly after.
C16_Example ==
    /\ pc # "init" => (diffs = ExampleScript /\ written = diffs /\ patch = ExamplePatch)
    /\ (pc = "done" /\ tamper = "none") => (out = after /\ err = "nil")

\* the example's patch made under the default timeout and applied to the end
C16_Witness ==
    /\ pc = "done" /\ tamper = "none" /\ timeout = DefaultTimeout
    /\ src = ExampleBefore /\ ppatch = ExamplePatch
    /\ out = ExampleAfter /\ err = "nil" /\ nrec = 6

\* a length in base 128, least significant group first, every byte but the
\* last with its high bit set
RECURSIVE Base128(_)
Base128(n) == IF n < 128 THEN <<n>> ELSE <<128 + (n % 128)>> \o Base128(n \div 128)

\* the records of a script on the wire: operation byte, length, and the
\* payload for Insert only
RECURSIVE WireOps(_)
WireOps(ds) ==
    IF ds = <<>> THEN <<>>
    ELSE <<Head(ds).Type>> \o Base128(Len(Head(ds).Text))
         \o (IF Head(ds).Type = OpInsert THEN Head(ds).Text ELSE <<>>)
         \o WireOps(Tail(ds))

\* the checksum record on the wire for the checksum w: 0x4B and the four
\* bytes of w, most significant first
WireWord(w) == <<75, WordByte(w, 3), WordByte(w, 2), WordByte(w, 1), WordByte(w, 0)>>

\* the checksum record of a target
WireCRC(target) == WireWord(ChecksumIEEE(target))

\* C17 as stated (SpecWire): the patch is a version byte, then for each
\* record of the script an operation byte (0x43, 0x49, 0x44), the base-128
\* varint of the payload length and the payload for Insert only, then 0x4B
\* and the big-endian CRC-32 of the target.
C17_WireFormatVersioned ==
    pc = "made" => patch = <<Version>> \o WireOps(written) \o WireCRC(after)

\* C17 as the code has it (SpecWire): the patch starts with the first record,
\* with no version byte before it: for each record of the script an operation
\* byte (0x43, 0x49, 0x44), the base-128 varint of the payload length and the
\* payload for Insert only, and always at the end 0x4B and the big-endian
\* CRC-32 of the target.
C17_WireFormat ==
    pc = "made" =>
        /\ patch = WireOps(written) \o WireCRC(after)
        /\ \A i \in 1..Len(written) : written[i].Type \in {67, 73, 68}

\* a deletion and a copy of LongLen bytes each, their lengths written in two
\* bytes and no payload
C17_Witness ==
    /\ pc = "made"
    /\ Len(written) = 2 /\ written[1].Type = OpDelete /\ written[2].Type = OpCopy
    /\ Len(written[1].Text) = LongLen /\ Len(written[2].Text) = LongLen
    /\ Len(patch) = 3 + 3 + 5
    /\ Upto(patch, 3) = <<68, 128 + (LongLen % 128), LongLen \div 128>>

\* the source position and the output that executing the records ds leaves,
\* from position pos and output o: Copy reads its length from the source and
\* appends it, Insert appends its payload, Delete only moves on in the source
RECURSIVE Replay(_, _, _, _)
Replay(ds, source, pos, o) ==
    IF ds = <<>> THEN [spos |-> pos, out |-> o]
    ELSE IF Head(ds).Type = OpCopy
    THEN Replay(Tail(ds), source, pos + Len(Head(ds).Text),
                o \o Slice(source, pos, pos + Len(Head(ds).Text)))
    ELSE IF Head(ds).Type = OpInsert
    THEN Replay(Tail(ds), source, pos, o \o Head(ds).Text)
    ELSE Replay(Tail(ds), source, pos + Len(Head(ds).Text), o)

\* the Copy, Insert and Delete records executed so far: the first nrec of the
\* written script (the checksum record is the one after them)
Executed == Upto(written, Min(nrec, Len(written)))

\* after the records executed without error, the decoder is where replaying
\* them leaves it
ProgressInv ==
    (pc \in {"apply", "done"} /\ err = "nil")
        => (/\ spos = Replay(Executed, src, 0, <<>>).spos
            /\ out = Replay(Executed, src, 0, <<>>).out)

\* a step of the decoder never moves the source position backwards, and the
\* step that executes a Delete record leaves the output as it is
ProgressStep ==
    /\ spos' >= spos
    /\ (pc = "apply" /\ ppos < Len(ppatch) /\ At(ppatch, ppos) = OpDelete /\ ~crcRead)
           => out' = out

C19_NoPartialResult ==
    pc = "done" => (ret # <<>> => err = "nil") /\ (err # "nil" => ret = <<>>)

\* a damaged patch whose records wrote output before the error was returned
C19_Witness ==
    /\ pc = "done" /\ tamper = "garble" /\ err # "nil" /\ out # <<>> /\ nrec >= 2
    /\ ret = <<>>

\* the vectors v1 and v2 as diffBisect initialises them
BisectFresh(runes1, runes2) ==
    [i \in 0..(2 * maxDOf(runes1, runes2) - 1) |->
        IF i = maxDOf(runes1, runes2) + 1 THEN 0 ELSE -1]

\* the number of iterations of the loop over d that were begun: all before
\* d, and d itself if the overlap was found in it
BisectBegun == IF bis.split # <<>> THEN bis.d + 1 ELSE bis.d

\* C20 (SpecBisect): diffBisect called with a non-zero deadline that has
\* already passed walks no path (v1 and v2 are as initialised) and returns
\* exactly [Delete(a), Insert(b)]; the clock is read only in the iterations d
\* that are multiples of 16: the reads that fell before the deadline number
\* one for every 16 iterations begun, and the loop is left on the deadline
\* only at such a d.
C20_DeadlineFallback ==
    pc = "bisected" =>
      /\ (timeout > 0 /\ ticks = 0)
            => /\ diffs = <<Diff(OpDelete, before), Diff(OpInsert, after)>>
               /\ bis.d = 0
               /\ bis.v1 = BisectFresh(before, after)
               /\ bis.v2 = BisectFresh(before, after)
      /\ timeout > 0 => ticks - bis.deadline = (BisectBegun + 15) \div 16
      /\ (timeout > 0 /\ bis.split = <<>> /\ bis.d < maxDOf(before, after))
            => bis.d % 16 = 0 /\ bis.deadline = 0
      /\ timeout = 0 => (bis.deadline = NoDeadline
                         /\ (bis.split # <<>> \/ bis.d = maxDOf(before, after)))

\* long texts and a deadline already passed
C20_Witness ==
    /\ pc = "bisected" /\ timeout > 0 /\ ticks = 0
    /\ Len(before) = BisectLen /\ Len(after) = BisectLen
    /\ diffs = <<Diff(OpDelete, before), Diff(OpInsert, after)>>

\* the length of a longest common subsequence of two texts
RECURSIVE LCS(_, _)
LCS(s, t) ==
    IF s = <<>> \/ t = <<>> THEN 0
    ELSE IF Head(s) = Head(t) THEN 1 + LCS(Tail(s), Tail(t))
    ELSE Max(LCS(Tail(s), t), LCS(s, Tail(t)))

\* the total payload length of the Insert and Delete ops of a script
RECURSIVE EditSize(_)
EditSize(ds) ==
    IF ds = <<>> THEN 0
    ELSE (IF Head(ds).Type # OpCopy THEN Len(Head(ds).Text) ELSE 0) + EditSize(Tail(ds))

\* C21 (SpecDiff): with timeout 0, for every before and after the total
\* payload length of the Insert and Delete ops of diffMain's script equals
\* len(before) + len(after) - 2*LCS(before, after): the script is a shortest
\* edit script.
C21_ShortestScript ==
    (pc = "diffed" /\ timeout = 0)
        => EditSize(diffs) = Len(before) + Len(after) - 2 * LCS(before, after)

\* two texts of full length, neither containing the other, with a common
\* subsequence the search had to find
C21_Witness ==
    /\ pc = "diffed" /\ timeout = 0
    /\ Len(before) = MaxLen /\ Len(after) = MaxLen /\ before # after
    /\ Head(before) # Head(after) /\ before[MaxLen] # after[MaxLen]
    /\ LCS(before, after) >= 2
    /\ Len(diffs) >= 3

\* the overlap found lies in the grid and is neither of its two corners, so
\* that a[:x], b[:y] and a[x:], b[y:] are both smaller than a, b
SplitInside ==
    (pc = "searched" /\ bis.split # <<>>)
        => /\ bis.split[1] \in 0..Len(before) /\ bis.split[2] \in 0..Len(after)
           /\ bis.split # <<0, 0>>
           /\ bis.split # <<Len(before), Len(after)>>
           /\ bis.split[1] + bis.split[2] < Len(before) + Len(after)
           /\ (Len(before) - bis.split[1]) + (Len(after) - bis.split[2])
                 < Len(before) + Len(after)

\* the step that follows the search returns a script of the two texts
SplitReturns ==
    pc = "searched"
        => (pc' = "bisected" /\ Text1Of(diffs') = before /\ Text2Of(diffs') = after)

\* C22 (SpecSearch): whenever diffBisect detects an overlap at the split
\* point (x, y) on inputs a, b, the point is neither (0, 0) nor
\* (len(a), len(b)), so both subproblems (a[:x], b[:y]) and (a[x:], b[y:])
\* are strictly smaller than (a, b); and the step after the search returns
\* a script of a and b.
C22_Termination == []SplitInside /\ [][SplitReturns]_vars

\* an overlap found without a deadline, and the script of the two halves
C22_Witness ==
    /\ pc = "bisected" /\ timeout = 0 /\ bis.split # <<>>
    /\ bis.split[1] > 0 /\ bis.split[2] > 0
    /\ bis.split[1] < Len(before) /\ bis.split[2] < Len(after)
    /\ Text1Of(diffs) = before /\ Text2Of(diffs) = after

\* the longer and the shorter of the two lengths
LongerLen == Max(Len(before), Len(after))
ShorterLen == Min(Len(before), Len(after))

\* C23 (SpecHalf): diffHalfMatch returns no match whenever no deadline is
\* set (timeout 0), whenever the longer input has fewer than 4 bytes, and
\* whenever twice the shorter input's length is less than the longer
\* input's length; with timeout 0 diffCompute therefore has no half-match
\* to split on.
C23_HalfMatchGating ==
    (pc = "halved" /\ (timeout = 0 \/ LongerLen < 4 \/ 2 * ShorterLen < LongerLen))
        => half = <<>>

\* texts sharing a half get no half-match without a deadline
C23_Witness ==
    /\ pc = "halved" /\ timeout = 0 /\ half = <<>>
    /\ Len(before) = 2 * MaxLen /\ Len(after) = 2 * MaxLen
    /\ diffHalfMatch(before, after, FALSE) # <<>>

\* the seed window l[i : i+len(l)/4] of diffHalfMatchI lies in the longer text
SeedInside(i) == i >= 0 /\ i + (LongerLen \div 4) <= LongerLen

\* C24 (SpecHalf): whenever diffHalfMatch(text1, text2) returns
\* (t1A, t1B, t2A, t2B, mid), then t1A+mid+t1B = text1, t2A+mid+t2B = text2
\* and 2*len(mid) >= max(len(text1), len(text2)); the seed windows at the
\* second and the third quarter of the longer text lie within it, and the
\* pieces cut at the ends of the prefix and suffix extension tile the texts.
C24_HalfMatchValid ==
    (pc = "halved" /\ half # <<>>)
        => /\ Len(half) = 5
           /\ half[1] \o half[5] \o half[2] = before
           /\ half[3] \o half[5] \o half[4] = after
           /\ 2 * Len(half[5]) >= LongerLen
           /\ SeedInside((LongerLen + 3) \div 4)
           /\ SeedInside((LongerLen + 1) \div 2)

\* a half-match of two long texts of which the second is the longer text,
\* with text left on both sides of the common middle
C24_Witness ==
    /\ pc = "halved" /\ half # <<>>
    /\ Len(before) = 2 * MaxLen /\ Len(after) = 2 * MaxLen
    /\ half[1] # <<>> /\ half[4] # <<>> /\ half[1] # half[3]
    /\ Len(half[5]) >= MaxLen

\* the index of the last Copy of ds before index p, -1 if there is none
RECURSIVE LastCopy(_, _)
LastCopy(ds, p) ==
    IF p <= 0 THEN -1
    ELSE IF At(ds, p - 1).Type = OpCopy THEN p - 1
    ELSE LastCopy(ds, p - 1)

\* the bytes of the ops of kind op of ds at the indices lo..hi
RECURSIVE Churn(_, _, _, _)
Churn(ds, op, lo, hi) ==
    IF lo > hi THEN 0
    ELSE (IF At(ds, lo).Type = op THEN Len(At(ds, lo).Text) ELSE 0) + Churn(ds, op, lo + 1, hi)

\* the larger of the inserted and the deleted bytes at the indices lo..hi
Churned(ds, lo, hi) == Max(Churn(ds, OpInsert, lo, hi), Churn(ds, OpDelete, lo, hi))

\* the edit at index p makes the Copy at index q before it one to replace: it
\* is not empty and no longer than the bytes changed between the equality
\* before it and it, nor than those changed after it up to p
Replaceable(ds, q, p) ==
    /\ q >= 0
    /\ Len(At(ds, q).Text) > 0
    /\ Len(At(ds, q).Text) <= Churned(ds, LastCopy(ds, q) + 1, q - 1)
    /\ Len(At(ds, q).Text) <= Churned(ds, q + 1, p)

\* ds with the Copy at index q replaced by a Delete and an Insert of its bytes
Replaced(ds, q) ==
    Upto(ds, q) \o <<Diff(OpDelete, At(ds, q).Text), Diff(OpInsert, At(ds, q).Text)>>
    \o From(ds, q + 1)

\* an iteration of the first loop: at an edit that makes the last Copy
\* replaceable the Copy is replaced, and nothing else changes the script
EliminationRule ==
    (pc = "sweep1" /\ loop.pointer < Len(loop.diffs))
        => IF /\ At(loop.diffs, loop.pointer).Type # OpCopy
              /\ Replaceable(loop.diffs, LastCopy(loop.diffs, loop.pointer), loop.pointer)
           THEN loop'.diffs = Replaced(loop.diffs, LastCopy(loop.diffs, loop.pointer))
           ELSE loop'.diffs = loop.diffs

\* the two scripts of the tests
EliminationTests ==
    pc = "cleaned"
        => /\ script = NoElimination1 => cleaned = NoElimination1
           /\ script = SimpleElimination
                 => cleaned = <<Diff(OpDelete, <<97, 98, 99>>), Diff(OpInsert, <<98>>)>>

\* C25 (SpecSweep): in the first sweep of diffCleanupSemantic a non-empty
\* Copy is replaced by Delete(same bytes), Insert(same bytes) as soon as its
\* length is <= max(inserted, deleted bytes) between the previous equality
\* and it and <= max(inserted, deleted bytes) after it so far; a Copy longer
\* than the churn on one of its sides is kept.  [Delete ab, Insert cd,
\* Copy 12, Delete e] is returned unchanged and [Delete a, Copy b, Delete c]
\* becomes [Delete abc, Insert b].
C25_SemanticElimination == []EliminationTests /\ [][EliminationRule]_vars

\* a Copy just replaced, the scan taken back to an earlier equality that
\* was kept
C25_Witness ==
    /\ pc = "sweep1" /\ loop.changes /\ loop.lastequality = <<>>
    /\ Len(loop.equalities) = 1 /\ loop.pointer = loop.equalities[1] + 1
    /\ Len(loop.diffs) = Len(script) + 1
    /\ loop.lengthInsertions2 = 0 /\ loop.lengthDeletions2 = 0


\* the length of the longest suffix of s that is a prefix of t
SuffixPrefix(s, t) ==
    CHOOSE k \in 0..Min(Len(s), Len(t)) :
        /\ SubSeq(s, Len(s) - k + 1, Len(s)) = SubSeq(t, 1, k)
        /\ \A j \in (k + 1)..Min(Len(s), Len(t)) :
               SubSeq(s, Len(s) - j + 1, Len(s)) # SubSeq(t, 1, j)

\* the three ops that replace Delete(d), Insert(i) given the two overlaps,
\* or the pair itself
Extraction(d, i, o1, o2) ==
    IF o1 >= o2 /\ (2 * o1 >= Len(d) \/ 2 * o1 >= Len(i))
    THEN <<Diff(OpDelete, SubSeq(d, 1, Len(d) - o1)),
           Diff(OpCopy, SubSeq(d, Len(d) - o1 + 1, Len(d))),
           Diff(OpInsert, SubSeq(i, o1 + 1, Len(i)))>>
    ELSE IF o2 > o1 /\ (2 * o2 >= Len(d) \/ 2 * o2 >= Len(i))
    THEN <<Diff(OpInsert, SubSeq(i, 1, Len(i) - o2)),
           Diff(OpCopy, SubSeq(i, Len(i) - o2 + 1, Len(i))),
           Diff(OpDelete, SubSeq(d, o2 + 1, Len(d)))>>
    ELSE <<Diff(OpDelete, d), Diff(OpInsert, i)>>

\* the script an iteration of the second loop leaves when it stands on the
\* second op of ds[pointer-1], ds[pointer]
Extracted(ds, pointer) ==
    IF At(ds, pointer - 1).Type = OpDelete /\ At(ds, pointer).Type = OpInsert
    THEN Upto(ds, pointer - 1)
         \o Extraction(At(ds, pointer - 1).Text, At(ds, pointer).Text,
                       SuffixPrefix(At(ds, pointer - 1).Text, At(ds, pointer).Text),
                       SuffixPrefix(At(ds, pointer).Text, At(ds, pointer - 1).Text))
         \o From(ds, pointer + 1)
    ELSE ds

\* an iteration of the second loop
ExtractionRule ==
    (pc = "sweep2" /\ loop.pointer < Len(loop.diffs))
        => loop'.diffs = Extracted(loop.diffs, loop.pointer)

\* the three scripts of the tests
ExtractionTests ==
    pc = "cleaned"
        => /\ script = NoOverlapElimination => cleaned = NoOverlapElimination
           /\ script = OverlapElimination
                 => cleaned = <<Diff(OpDelete, <<97, 98, 99>>), Diff(OpCopy, <<120, 120, 120>>),
                                Diff(OpInsert, <<100, 101, 102>>)>>
           /\ script = ReverseOverlapElimination
                 => cleaned = <<Diff(OpInsert, <<100, 101, 102>>), Diff(OpCopy, <<120, 120, 120>>),
                                Diff(OpDelete, <<97, 98, 99>>)>>

\* C26 (SpecSweep): in the second sweep of diffCleanupSemantic, for adjacent
\* Delete d, Insert i with o1 the longest suffix of d that is a prefix of i
\* and o2 the longest suffix of i that is a prefix of d: if o1 >= o2 and
\* (2*o1 >= len(d) or 2*o1 >= len(i)) the pair becomes Delete(d minus its
\* last o1 bytes), Copy(overlap), Insert(i minus its first o1 bytes); if
\* o2 > o1 and (2*o2 >= len(d) or 2*o2 >= len(i)) it becomes Insert(i minus
\* its last o2 bytes), Copy(overlap), Delete(d minus its first o2 bytes);
\* otherwise the pair is unchanged.
C26_OverlapExtraction == []ExtractionTests /\ [][ExtractionRule]_vars

\* a reverse overlap of two bytes or more just extracted from a pair that
\* also had a shorter forward overlap
C26_Witness ==
    /\ pc = "sweep2" /\ Len(script) = 2 /\ Len(loop.diffs) = 3 /\ loop.pointer = 4
    /\ script[1].Type = OpDelete /\ script[2].Type = OpInsert
    /\ loop.diffs[1].Type = OpInsert /\ loop.diffs[3].Type = OpDelete
    /\ Len(loop.diffs[2].Text) >= 2
    /\ SuffixPrefix(script[1].Text, script[2].Text) = 1


\* an op of kind op stands in ds at one of the indices lo..hi
Present(ds, op, lo, hi) == \E k \in lo..hi : At(ds, k).Type = op

\* how many of Insert before, Delete before, Insert after, Delete after are
\* present around the Copy at index q, the ops after it taken up to index p
Around(ds, q, p) ==
    (IF Present(ds, OpInsert, LastCopy(ds, q) + 1, q - 1) THEN 1 ELSE 0)
    + (IF Present(ds, OpDelete, LastCopy(ds, q) + 1, q - 1) THEN 1 ELSE 0)
    + (IF Present(ds, OpInsert, q + 1, p) THEN 1 ELSE 0)
    + (IF Present(ds, OpDelete, q + 1, p) THEN 1 ELSE 0)

\* the edit at index p makes the Copy at index q before it one to collapse
Collapsible(ds, q, p) ==
    /\ q >= 0
    /\ \/ Len(At(ds, q).Text) < 4 /\ Around(ds, q, p) = 4
       \/ Len(At(ds, q).Text) < 2 /\ Around(ds, q, p) = 3

\* an iteration of the loop: at an edit that makes the last Copy collapsible
\* the Copy is replaced, and nothing else changes the script
CollapseRule ==
    (pc = "eff" /\ loop.pointer < Len(loop.diffs))
        => IF /\ At(loop.diffs, loop.pointer).Type # OpCopy
              /\ Collapsible(loop.diffs, LastCopy(loop.diffs, loop.pointer), loop.pointer)
           THEN loop'.diffs = Replaced(loop.diffs, LastCopy(loop.diffs, loop.pointer))
           ELSE loop'.diffs = loop.diffs

\* the scripts of the tests
CollapseTests ==
    pc = "cleaned"
        => /\ script = EfficiencyNoElimination => cleaned = EfficiencyNoElimination
           /\ script = FourEditElimination
                 => cleaned = <<Diff(OpDelete, <<97, 98, 120, 121, 122, 99, 100>>),
                                Diff(OpInsert, <<49, 50, 120, 121, 122, 51, 52>>)>>
           /\ script = ThreeEditElimination
                 => cleaned = <<Diff(OpDelete, <<120, 99, 100>>),
                                Diff(OpInsert, <<49, 50, 120, 51, 52>>)>>
           /\ script = BackpassElimination
                 => cleaned = <<Diff(OpDelete, <<97, 98, 120, 121, 122, 99, 100>>),
                                Diff(OpInsert, <<49, 50, 120, 121, 51, 52, 122, 53, 54>>)>>

NoEmptyOps(ds) == \A k \in 1..Len(ds) : Len(ds[k].Text) > 0

\* C28 (SpecJoin): every op of the script diffMain returns has a non-empty
\* payload, for every before, after and timeout: neither the zero-length
\* Copy appended by diffCleanupMerge nor a zero-length Delete or Insert left
\* by the factoring of a common prefix or suffix is in it.
C28_NoEmptyOps == pc = "diffed" => NoEmptyOps(diffs)

\* C29 (SpecReach): diffBisect is reached only with both texts of two bytes
\* or more, and then every index into v1 and v2 (vOffset+1, k1Offset-1,
\* k1Offset+1, k2Offset-1, k2Offset+1 and the ones written) and every index
\* into the two texts is inside its slice: the search does not panic.
C29_BisectIndexSafety ==
    (pc = "computed" /\ loop.case = "bisect")
        => /\ Len(loop.text1) >= 2 /\ Len(loop.text2) >= 2
           /\ ~bis.panic

\* a search on texts of two bytes each, cut out of longer ones, that went
\* round the loop more than once and wrote the first and the last entry
\* of v1 that a text of this size can reach
C29_Witness ==
    /\ pc = "computed" /\ loop.case = "bisect"
    /\ Len(loop.text1) = 2 /\ Len(loop.text2) = 2 /\ Len(before) > 2
    /\ bis.d >= 1 /\ ~bis.panic
    /\ bis.v1[1] # -1 /\ bis.v1[3] # -1

\* C30 (SpecOver): the streaming ApplyPatch returns an error for every Copy,
\* Delete or Insert record whose declared length exceeds the bytes left in
\* the stream it reads from (the source for Copy and Delete, the patch for
\* Insert), for every 64-bit length, those of 2^63 and more included.
C30_OverlongRejected ==
    (tamper = "overlong" /\ pc \in {"apply", "done"} /\ nrec >= 1) => err # "nil"

====
